---- MODULE Spec2Model ----
(***************************************************************************)
(* Model of the playlist updater (scripts/update_m3u8.py) and of its       *)
(* orchestrator (scripts/update_playlist.py).                              *)
(*                                                                         *)
(* Text is modelled as a sequence of symbols.  A symbol is an atomic piece *)
(* of text ("#EXTINF:", "tvg-id", "=", " ", "1", ...); every string of the *)
(* model is cut into symbols in one canonical way, so that the patterns    *)
(* the code looks for (substrings, prefixes, regular expressions) begin    *)
(* and end on symbol boundaries.  The playlist file is one such sequence,  *)
(* with "\n" symbols as line terminators.  An optional value (Python's     *)
(* None or a string) is a sequence of length 0 or 1.                       *)
(***************************************************************************)
EXTENDS Integers, Sequences, FiniteSets, TLC

VARIABLES
    file,       \* text of the playlist file on disk
    backups,    \* texts written as backups, in order
    args,       \* arguments of the (pending or last) update_m3u_file call
    ret,        \* outcome of the last update_m3u_file call
    before,     \* text of the playlist file when the last call started
    calls,      \* number of update_m3u_file calls made
    probes,     \* number of times the validator was invoked by update_m3u_file
    resp,       \* HTTP exchange handed to _validate_url
    verdict,    \* the last answer of _validate_url
    orch        \* state of the orchestrator's main()

vars == <<file, backups, args, ret, before, calls, probes, resp, verdict, orch>>

----------------------------------------------------------------------------
(* Bounds of the model *)

\* lines of a playlist
MaxLines == 3
\* symbols of a response body
MaxBody == 3
\* times the clock jumps ahead during a run of the orchestrator
MaxTicks == 1

----------------------------------------------------------------------------
(* Optional values *)

None == <<>>
Some(s) == <<s>>
IsNone(o) == Len(o) = 0
Val(o) == o[1]

----------------------------------------------------------------------------
(* String primitives (Python str methods and the re patterns used) *)

\* whitespace symbols ("<sp*1024>" and "<sp>" are runs of spaces)
SpaceSyms == {" ", "\t", "<sp*1024>", "<sp>"}
DigitSyms == {"0", "1", "2", "3", "4", "5", "6", "7", "8", "9"}
\* symbols whose first character is '#'
HashSyms == {"#", "#EXTINF:", "#EXTVLCOPT:", "#EXTM3U", "#EXT"}

\* str.lower() / str.upper(), symbol by symbol
LowerSym(c) ==
    CASE c = "SPORT" -> "sport"
      [] c = "Sport" -> "sport"
      [] c = "TV" -> "tv"
      [] c = "Tv" -> "tv"
      [] c = "HD" -> "hd"
      [] c = "SD" -> "sd"
      [] c = "ELEVEN" -> "eleven"
      [] c = "Eleven" -> "eleven"
      [] c = "GROUP-TITLE" -> "group-title"
      [] c = "MPEGURL" -> "mpegurl"
      [] c = ".M3U8" -> ".m3u8"
      [] OTHER -> c

UpperSym(c) ==
    CASE c = "sport" -> "SPORT"
      [] c = "Sport" -> "SPORT"
      [] c = "tv" -> "TV"
      [] c = "Tv" -> "TV"
      [] c = "hd" -> "HD"
      [] c = "sd" -> "SD"
      [] c = "eleven" -> "ELEVEN"
      [] c = "Eleven" -> "ELEVEN"
      [] c = "pt" -> "PT"
      [] OTHER -> c

Lower(s) == [i \in 1..Len(s) |-> LowerSym(s[i])]
Upper(s) == [i \in 1..Len(s) |-> UpperSym(s[i])]

StartsWith(s, p) == Len(p) <= Len(s) /\ SubSeq(s, 1, Len(p)) = p
EndsWith(s, p) == Len(p) <= Len(s) /\ SubSeq(s, Len(s) - Len(p) + 1, Len(s)) = p
\* p occurs in s at position i
OccursAt(s, p, i) ==
    /\ i + Len(p) - 1 <= Len(s)
    /\ Len(p) = 0 \/ s[i] = p[1]
    /\ SubSeq(s, i, i + Len(p) - 1) = p
\* "p in s"
Contains(s, p) == \E i \in 1..(Len(s) + 1) : OccursAt(s, p, i)

\* first index >= i of s that holds no whitespace (Len(s)+1 when there is none): \s*
RECURSIVE SkipSpaces(_, _)
SkipSpaces(s, i) ==
    IF i <= Len(s) /\ s[i] \in SpaceSyms THEN SkipSpaces(s, i + 1) ELSE i

RECURSIVE LStrip(_)
LStrip(s) == IF Len(s) > 0 /\ Head(s) \in SpaceSyms THEN LStrip(Tail(s)) ELSE s

RECURSIVE RStrip(_)
RStrip(s) ==
    IF Len(s) > 0 /\ s[Len(s)] \in SpaceSyms THEN RStrip(SubSeq(s, 1, Len(s) - 1)) ELSE s

\* str.strip()
Strip(s) == RStrip(LStrip(s))

\* str.startswith("#")
StartsWithHash(s) == Len(s) > 0 /\ s[1] \in HashSyms

\* s.split("=", 1)[1]: what follows the first "=" of s
AfterFirstEq(s) ==
    LET i == CHOOSE k \in 1..Len(s) : s[k] = "=" /\ \A j \in 1..(k - 1) : s[j] # "="
    IN SubSeq(s, i + 1, Len(s))

\* index of the first "\n" of t at or after i (Len(t)+1 when there is none)
RECURSIVE NextNewline(_, _)
NextNewline(t, i) == IF i <= Len(t) /\ t[i] # "\n" THEN NextNewline(t, i + 1) ELSE i

\* str.splitlines() of a text whose line terminator is "\n"
RECURSIVE SplitFrom(_, _)
SplitFrom(t, i) ==
    IF i > Len(t) THEN <<>>
    ELSE LET k == NextNewline(t, i)
         IN <<SubSeq(t, i, k - 1)>> \o SplitFrom(t, k + 1)

SplitLines(t) == SplitFrom(t, 1)

\* "\n".join(lines)
RECURSIVE JoinLines(_)
JoinLines(ls) ==
    IF Len(ls) = 0 THEN <<>>
    ELSE IF Len(ls) = 1 THEN ls[1]
    ELSE ls[1] \o <<"\n">> \o JoinLines(Tail(ls))

----------------------------------------------------------------------------
(* update_m3u8.py: update_m3u_file, the locator *)

Quote == "\""

\* the text f'tvg-id="{tvg_id}"'
TvgNeedle(tvg_id) == <<"tvg-id", "=", Quote>> \o tvg_id \o <<Quote>>

\* index of the first Quote of s at or after i (Len(s)+1 when there is none)
RECURSIVE NextQuote(_, _)
NextQuote(s, i) == IF i <= Len(s) /\ s[i] # Quote THEN NextQuote(s, i + 1) ELSE i

\* re.search(r'group-title\s*=\s*"([^"]*)"', line, re.I) anchored at i:
\* the index of the opening quote when the pattern matches at i, else 0
GroupTitleAt(line, i) ==
    IF LowerSym(line[i]) # "group-title" THEN 0
    ELSE LET j == SkipSpaces(line, i + 1)
         IN IF j > Len(line) \/ line[j] # "=" THEN 0
            ELSE LET k == SkipSpaces(line, j + 1)
                 IN IF k > Len(line) \/ line[k] # Quote THEN 0
                    ELSE IF NextQuote(line, k + 1) > Len(line) THEN 0
                    ELSE k

\* m.group(1) of the leftmost match, None when the pattern matches nowhere
GroupTitle(line) ==
    LET hits == {i \in 1..Len(line) : GroupTitleAt(line, i) # 0}
    IN IF hits = {} THEN None
       ELSE LET i == CHOOSE x \in hits : \A y \in hits : x <= y
                k == GroupTitleAt(line, i)
            IN Some(SubSeq(line, k + 1, NextQuote(line, k + 1) - 1))

\* the group filter of the primary scan: TRUE when the line is kept
PassesGroupFilter(line, group_filter) ==
    IF IsNone(group_filter) \/ Val(group_filter) = <<>> THEN TRUE
    ELSE LET m == GroupTitle(line)
         IN IF IsNone(m) THEN FALSE
            ELSE Lower(Strip(Val(m))) = Lower(Val(group_filter))

\* primary match: index of the first line carrying the tvg-id annotation that
\* the group filter keeps, 0 when there is none
PrimaryIdx(lines, tvg_id, group_filter) ==
    LET hits == {i \in 1..Len(lines) :
                    /\ Contains(lines[i], TvgNeedle(tvg_id))
                    /\ PassesGroupFilter(lines[i], group_filter)}
    IN IF hits = {} THEN 0 ELSE CHOOSE x \in hits : \A y \in hits : x <= y

\* the fallback without its family test: every identifier may fall back
InSportFamilyAny(tvg_id) == tvg_id = tvg_id

\* tvg_upper.startswith('SPORT.TV') or tvg_upper.startswith('SPORTTV')
InSportFamily(tvg_id) ==
    \/ StartsWith(Upper(tvg_id), <<"SPORT", ".", "TV">>)
    \/ StartsWith(Upper(tvg_id), <<"SPORT", "TV">>)

\* re.search(r"(\d+)$", tvg_id): the longest run of digits that ends the id
RECURSIVE TrailingDigits(_)
TrailingDigits(s) ==
    IF Len(s) > 0 /\ s[Len(s)] \in DigitSyms
    THEN TrailingDigits(SubSeq(s, 1, Len(s) - 1)) \o <<s[Len(s)]>>
    ELSE <<>>

\* re.search(rf"Sport\s*TV\s*{num}", line, re.I)
SportTvMatch(line, num) ==
    \E i \in 1..Len(line) :
        /\ LowerSym(line[i]) = "sport"
        /\ LET j == SkipSpaces(line, i + 1)
           IN /\ j <= Len(line)
              /\ LowerSym(line[j]) = "tv"
              /\ OccursAt(line, num, SkipSpaces(line, j + 1))

\* fallback match: index of the first line labelled 'Sport TV <num>', 0 when
\* the id is outside the family, has no trailing number, or no line matches
FallbackIdx(lines, tvg_id) ==
    IF ~InSportFamily(tvg_id) THEN 0
    ELSE LET num == TrailingDigits(tvg_id)
         IN IF num = <<>> THEN 0
            ELSE LET hits == {i \in 1..Len(lines) : SportTvMatch(lines[i], num)}
                 IN IF hits = {} THEN 0
                    ELSE CHOOSE x \in hits : \A y \in hits : x <= y

\* target_idx that starts at the first line instead of None
TargetIdxDefaultFirst(lines, tvg_id, group_filter) ==
    LET p == PrimaryIdx(lines, tvg_id, group_filter)
        f == FallbackIdx(lines, tvg_id)
    IN IF p # 0 THEN p ELSE IF f # 0 THEN f ELSE IF Len(lines) > 0 THEN 1 ELSE 0

\* target_idx (1-based; 0 stands for None)
TargetIdx(lines, tvg_id, group_filter) ==
    LET p == PrimaryIdx(lines, tvg_id, group_filter)
    IN IF p # 0 THEN p ELSE FallbackIdx(lines, tvg_id)

----------------------------------------------------------------------------
(* update_m3u8.py: update_m3u_file, the replaceable block and the rewrite *)

IsBlank(line) == Strip(line) = <<>>

\* first index >= i whose line is not blank (Len(lines)+1 when there is none)
RECURSIVE SkipBlank(_, _)
SkipBlank(lines, i) ==
    IF i <= Len(lines) /\ IsBlank(lines[i]) THEN SkipBlank(lines, i + 1) ELSE i

\* first index >= i whose line does not start with '#' (Len(lines)+1 when none)
RECURSIVE SkipComments(_, _)
SkipComments(lines, i) ==
    IF i <= Len(lines) /\ StartsWithHash(lines[i]) THEN SkipComments(lines, i + 1) ELSE i

\* start_replace: the first non-blank line after the header
StartReplace(lines, target) == SkipBlank(lines, target + 1)

\* pos2: the line after the consecutive '#' lines
UrlPos(lines, target) == SkipComments(lines, StartReplace(lines, target))

HasUrl(lines, target) ==
    LET p == UrlPos(lines, target)
    IN p <= Len(lines) /\ ~StartsWithHash(lines[p]) /\ ~IsBlank(lines[p])

\* existing_url
ExistingUrl(lines, target) ==
    IF HasUrl(lines, target) THEN Some(Strip(lines[UrlPos(lines, target)])) ELSE None

\* end_replace (exclusive)
EndReplace(lines, target) ==
    IF HasUrl(lines, target) THEN UrlPos(lines, target) + 1 ELSE UrlPos(lines, target)

RefPrefix == <<"#EXTVLCOPT:", "http-referrer", "=">>
UaPrefix == <<"#EXTVLCOPT:", "http-user-agent", "=">>

\* value of the last line of lines[from..to-1] that, stripped, starts with prefix
ExistingOpt(lines, from, to, prefix) ==
    LET hits == {i \in from..(to - 1) : StartsWith(Strip(lines[i]), prefix)}
    IN IF hits = {} THEN None
       ELSE LET i == CHOOSE x \in hits : \A y \in hits : y <= x
            IN Some(AfterFirstEq(Strip(lines[i])))

ExistingRef(lines, target) ==
    ExistingOpt(lines, StartReplace(lines, target), EndReplace(lines, target), RefPrefix)

ExistingUa(lines, target) ==
    ExistingOpt(lines, StartReplace(lines, target), EndReplace(lines, target), UaPrefix)

\* url_changed
UrlChanged(existing_url, new_url) ==
    IsNone(existing_url) \/ Strip(Val(existing_url)) # Strip(new_url)

\* opts_changed that compares also the values that were not supplied
OptsChangedUnguarded(desired_ref, existing_ref, desired_ua, existing_ua) ==
    desired_ref # existing_ref \/ desired_ua # existing_ua

\* opts_changed
OptsChanged(desired_ref, existing_ref, desired_ua, existing_ua) ==
    \/ ~IsNone(desired_ref) /\ desired_ref # existing_ref
    \/ ~IsNone(desired_ua) /\ desired_ua # existing_ua

\* an option line that is written only when its value is supplied
OptLineSuppliedOnly(prefix, desired, existing) ==
    IF ~IsNone(desired) THEN <<prefix \o Val(desired)>> ELSE <<>>

\* one option line: the desired value when supplied, else the existing one, else none
OptLine(prefix, desired, existing) ==
    IF ~IsNone(desired) THEN <<prefix \o Val(desired)>>
    ELSE IF ~IsNone(existing) THEN <<prefix \o Val(existing)>>
    ELSE <<>>

\* insert_lines
InsertLines(desired_ref, existing_ref, desired_ua, existing_ua) ==
    OptLine(RefPrefix, desired_ref, existing_ref) \o OptLine(UaPrefix, desired_ua, existing_ua)

\* lines[start_replace:end_replace] = new_block
ReplaceSlice(lines, from, to, new_block) ==
    SubSeq(lines, 1, from - 1) \o new_block \o SubSeq(lines, to, Len(lines))

\* the text written back: "\n".join(lines) + "\n"
Rendered(lines) == JoinLines(lines) \o <<"\n">>

\* how the call ends once the entry is located: "Unchanged" is the early
\* return (False, existing_url), "Invalid" the RuntimeError after a failed
\* validation, "Changed" the return (True, existing_url)
DecideKind(url_changed, opts_changed, valid) ==
    IF ~url_changed /\ ~opts_changed THEN "Unchanged"
    ELSE IF ~valid THEN "Invalid"
    ELSE "Changed"

\* whether _validate_url is called in a call that ends this way
CallsValidator(kind) == kind \in {"Invalid", "Changed"}

\* a write that does not wait for the validator's answer
WritesFileUnvalidated(kind, dry_run) == kind \in {"Changed", "Invalid"} /\ ~dry_run

\* whether the backup and the file are written in a call that ends this way
WritesFile(kind, dry_run) == kind = "Changed" /\ ~dry_run

\* the end of a call that located its entry and decided kind: the result
\* record, with the file rewritten and the backup taken when the call writes
UpdateResult(lines, target, existing_url, new_block, kind, text, a, bak_exists) ==
    [kind |-> kind,
     target |-> target,
     old |-> IF kind = "Invalid" THEN None ELSE existing_url,
     text |-> IF WritesFile(kind, a.dry_run)
              THEN Rendered(ReplaceSlice(lines, StartReplace(lines, target),
                                         EndReplace(lines, target), new_block))
              ELSE text,
     validated |-> CallsValidator(kind),
     baks |-> IF WritesFile(kind, a.dry_run) /\ a.backup_dir /\ ~bak_exists
              THEN <<text>> ELSE <<>>]

\* the call from the parsed entry on: decide, validate, build the block, write
UpdateEntry(lines, target, existing_url, existing_ref, existing_ua, text, a, valid, bak_exists) ==
    UpdateResult(lines, target, existing_url,
                 InsertLines(a.referrer, existing_ref, a.user_agent, existing_ua)
                     \o <<a.new_url>>,
                 DecideKind(UrlChanged(existing_url, a.new_url),
                            OptsChanged(a.referrer, existing_ref, a.user_agent, existing_ua),
                            valid),
                 text, a, bak_exists)

\* the call from target_idx on: not found, or the entry parsed and updated
UpdateTarget(lines, target, text, a, valid, bak_exists) ==
    IF target = 0
    THEN [kind |-> "NotFound", target |-> 0, old |-> None, text |-> text,
          validated |-> FALSE, baks |-> <<>>]
    ELSE UpdateEntry(lines, target, ExistingUrl(lines, target), ExistingRef(lines, target),
                     ExistingUa(lines, target), text, a, valid, bak_exists)

\* the call from the lines of the file on
UpdateLines(lines, text, a, valid, bak_exists) ==
    UpdateTarget(lines, TargetIdx(lines, a.tvg_id, a.group_filter), text, a, valid, bak_exists)

(***************************************************************************)
(* update_m3u_file(file_path, tvg_id, new_url, dry_run, referrer,          *)
(* user_agent, backup_dir, group_filter) on a file holding text.  valid is *)
(* the answer _validate_url gives if it is asked; bak_exists tells whether *)
(* a backup of the same timestamp is already there.  The result tells how  *)
(* the call ended: kind is "NotFound" or "Invalid" for the two RuntimeError*)
(* exits, "Unchanged" for (False, existing_url), "Changed" for             *)
(* (True, existing_url); target is target_idx (0 for None); old is         *)
(* existing_url; text is the file afterwards; validated tells whether      *)
(* _validate_url was called; baks are the backups written.                 *)
(***************************************************************************)
UpdateM3uFile(text, a, valid, bak_exists) ==
    UpdateLines(SplitLines(text), text, a, valid, bak_exists)

----------------------------------------------------------------------------
(* update_m3u8.py: _validate_url *)

\* r.raw.read(2048)
READ_LIMIT == 2048

\* number of bytes of a body symbol; "<sp*1024>" is a run of 1024 spaces,
\* "<ff>" a byte that is no valid UTF-8, "<sp>" a shorter run of spaces,
\* "<frag>" a symbol cut short
ByteLen(c) ==
    CASE c = "#EXT" -> 4
      [] c = "M3U" -> 3
      [] c = "INF" -> 3
      [] c = "<sp*1024>" -> 1024
      [] OTHER -> 1

\* what is left of symbol c when only its first n bytes (0 < n < ByteLen(c)) are read
CutSym(c, n) == IF c = "<sp*1024>" THEN "<sp>" ELSE "<frag>"

\* the first n bytes of body
RECURSIVE ReadPrefix(_, _)
ReadPrefix(body, n) ==
    IF Len(body) = 0 \/ n <= 0 THEN <<>>
    ELSE IF ByteLen(Head(body)) <= n
         THEN <<Head(body)>> \o ReadPrefix(Tail(body), n - ByteLen(Head(body)))
         ELSE <<CutSym(Head(body), n)>>

\* data.decode('utf-8', errors='ignore'): invalid bytes are dropped
RECURSIVE Decode(_)
Decode(data) ==
    IF Len(data) = 0 THEN <<>>
    ELSE IF Head(data) = "<ff>" THEN Decode(Tail(data))
    ELSE <<Head(data)>> \o Decode(Tail(data))

\* data_text, the decoded prefix of the body ("" when reading raised)
DataText(r) == IF r.read_fails THEN <<>> ELSE Decode(ReadPrefix(r.body, READ_LIMIT))

\* status_ok that takes every 2xx status
StatusOkAny2xx(r) == r.status \in 200..299

\* status_ok
StatusOk(r) == r.status = 200

\* first test: the content type or the URL says m3u8
LooksLikeM3u8(url, r) ==
    \/ Contains(Lower(r.ctype), <<"mpegurl">>)
    \/ EndsWith(Lower(url), <<".m3u8">>)

\* second test: the body prefix carries M3U metadata
BodyIsM3u(r) ==
    \/ Contains(DataText(r), <<"#EXT", "M3U">>)
    \/ Contains(DataText(r), <<"#EXT", "INF">>)
    \/ StartsWith(Strip(DataText(r)), <<"#EXT">>)

(***************************************************************************)
(* _validate_url(url, referrer, user_agent, cookies, timeout) when the GET *)
(* meets the exchange r: r.raises tells that requests.get raised (timeout, *)
(* DNS, reset); otherwise r carries the status, the content-type header    *)
(* ("" when absent) and the body, and r.read_fails tells that reading the  *)
(* body raised.  The request headers built from referrer and user_agent do *)
(* not enter the classification.                                           *)
(***************************************************************************)
ValidateUrl(url, r) ==
    IF r.raises THEN FALSE
    ELSE IF StatusOk(r) /\ LooksLikeM3u8(url, r) THEN TRUE
    ELSE IF StatusOk(r) /\ BodyIsM3u(r) THEN TRUE
    ELSE FALSE

----------------------------------------------------------------------------
(* The texts the model draws its inputs from *)

SPORT_TV1 == <<"SPORT", ".", "TV", "1">>
ELEVEN1 == <<"ELEVEN", "1">>

\* #EXTINF:-1 tvg-id="SPORT.TV1" group-title="HD",Sport TV 1
HdrSportHD ==
    <<"#EXTINF:", "-1", " ", "tvg-id", "=", Quote, "SPORT", ".", "TV", "1", Quote, " ",
      "group-title", "=", Quote, "HD", Quote, ",", "Sport", " ", "TV", " ", "1">>
\* #EXTINF:-1 tvg-id="SPORT.TV1" group-title="SD",Sport TV 1
HdrSportSD ==
    <<"#EXTINF:", "-1", " ", "tvg-id", "=", Quote, "SPORT", ".", "TV", "1", Quote, " ",
      "group-title", "=", Quote, "SD", Quote, ",", "Sport", " ", "TV", " ", "1">>
\* #EXTINF:-1 tvg-id="ELEVEN1" group-title="hd",Eleven 1
HdrElevenHd ==
    <<"#EXTINF:", "-1", " ", "tvg-id", "=", Quote, "ELEVEN", "1", Quote, " ",
      "group-title", "=", Quote, "hd", Quote, ",", "Eleven", " ", "1">>
\* #EXTINF:-1,Sport TV 1
HdrLabelOnly == <<"#EXTINF:", "-1", ",", "Sport", " ", "TV", " ", "1">>

Headers == {HdrSportHD, HdrSportSD, HdrElevenHd, HdrLabelOnly}

Ref1 == <<"https://", "old", "/">>
Ref2 == <<"https://", "ref", "/", "?", "a", "=", "b">>
Ua1 == <<"Mozilla/5.0">>
Url1 == <<"https://", "old", ".", "url", "/", "a", ".m3u8">>
Url2 == <<"https://", "new", ".", "url", "/", "b", ".m3u8">>

RefLine1 == RefPrefix \o Ref1
UaLine1 == UaPrefix \o Ua1
BlankLine == <<>>

RefLine2 == RefPrefix \o Ref2

\* the lines a playlist is made of: where the locator is exercised, and where
\* the rewrite is
LocateCatalogue == Headers \cup {BlankLine, Url1}
RewriteCatalogue == {HdrSportHD, HdrElevenHd, RefLine1, RefLine2, UaLine1, BlankLine, Url1}

RECURSIVE SeqsUpTo(_, _)
SeqsUpTo(S, n) ==
    IF n = 0 THEN {<<>>}
    ELSE LET shorter == SeqsUpTo(S, n - 1)
         IN shorter \cup {Append(q, x) : q \in {p \in shorter : Len(p) = n - 1}, x \in S}

\* the playlists on disk made of the lines of S, each line ended by a newline
\* (eols = {<<"\n">>}) or the last line with or without one (eols = {<<>>, <<"\n">>})
FilesOver(S, eols) == {JoinLines(ls) \o eol : ls \in SeqsUpTo(S, MaxLines), eol \in eols}

\* calls that exercise the locator
LocateArgs ==
    [tvg_id : {SPORT_TV1, ELEVEN1}, new_url : {Url2}, dry_run : BOOLEAN,
     referrer : {None}, user_agent : {None}, backup_dir : {FALSE},
     group_filter : {None, Some(<<"HD">>)}]

\* calls that exercise the rewrite
RewriteArgs ==
    [tvg_id : {SPORT_TV1}, new_url : {Url1, Url2}, dry_run : {FALSE},
     referrer : {None, Some(Ref1), Some(Ref2)}, user_agent : {None, Some(Ua1)},
     backup_dir : {TRUE}, group_filter : {None}]

\* the exchanges the validator meets when update_m3u_file asks it
Exchange(raises, status, ctype, read_fails, body) ==
    [raises |-> raises, status |-> status, ctype |-> ctype,
     read_fails |-> read_fails, body |-> body]

Timeout == Exchange(TRUE, 0, <<>>, FALSE, <<>>)
ProbeExchanges ==
    {Timeout,
     Exchange(FALSE, 200, <<"application/", "x-", "mpegurl">>, FALSE, <<"#EXT", "M3U">>),
     Exchange(FALSE, 404, <<"text/html">>, FALSE, <<"x">>)}

NoArgs == [tvg_id |-> <<>>, new_url |-> <<>>, dry_run |-> FALSE, referrer |-> None,
           user_agent |-> None, backup_dir |-> FALSE, group_filter |-> None]
NoRet == [kind |-> "None", target |-> 0, old |-> None, text |-> <<>>, validated |-> FALSE, baks |-> <<>>]
OrchIdle == [pc |-> "idle"]

----------------------------------------------------------------------------
(* Calls of update_m3u_file on a playlist file *)

InitWith(files, callArgs) ==
    /\ file \in files
    /\ args \in callArgs
    /\ backups = <<>>
    /\ ret = NoRet
    /\ before = <<>>
    /\ calls = 0
    /\ probes = 0
    /\ resp = Timeout
    /\ verdict = FALSE
    /\ orch = OrchIdle

\* one call of update_m3u_file with the arguments args
Call ==
    \E valid \in {ValidateUrl(args.new_url, x) : x \in ProbeExchanges},
       bak_exists \in (IF backups = <<>> THEN {FALSE} ELSE BOOLEAN) :
        \E r \in {UpdateM3uFile(file, args, valid, bak_exists)} :
           /\ ret' = r
           /\ before' = file
           /\ file' = r.text
           /\ backups' = backups \o r.baks
           /\ probes' = probes + (IF r.validated THEN 1 ELSE 0)
           /\ calls' = calls + 1
           /\ verdict' = (IF r.validated THEN valid ELSE verdict)
           /\ UNCHANGED <<args, resp, orch>>

\* the first call
Update == calls = 0 /\ Call

\* the same call again, right after a first call that changed the file
Repeat == calls = 1 /\ ret.kind = "Changed" /\ ~args.dry_run /\ Call

Next == Update \/ Repeat

InitLocate == InitWith(FilesOver(LocateCatalogue, {<<>>, <<"\n">>}), LocateArgs)
InitRewrite == InitWith(FilesOver(RewriteCatalogue, {<<"\n">>}), RewriteArgs)

\* calls that exercise the locator
SpecLocate == InitLocate /\ [][Next]_vars
\* calls that exercise the rewrite
SpecRewrite == InitRewrite /\ [][Next]_vars

----------------------------------------------------------------------------
(* Properties of update_m3u_file *)

\* the playlist lines before and after the last call, and the located header
OldLines == SplitLines(before)
NewLines == SplitLines(file)
Returned == calls >= 1
Rewrote == Returned /\ ret.kind = "Changed" /\ ~args.dry_run

IsHeaderLine(line) == Len(line) > 0 /\ line[1] = "#EXTINF:"
IsUrlLine(line) == ~StartsWithHash(line) /\ ~IsBlank(line)

\* the headers of the model whose group-title is "HD" in some case
HdHeaders == {HdrSportHD, HdrElevenHd}

\* C1: with a group filter, a call never selects a header line whose
\* group-title is missing or differs (in any case) from the filter: when the
\* filter rejects every line that carries the tvg-id, the call ends not-found
\* and does not fall through to the 'Sport TV N' fallback.
C1_GroupFilterExact ==
    (Returned /\ args.group_filter = Some(<<"HD">>) /\ ret.target # 0)
        => OldLines[ret.target] \in HdHeaders

\* C7: for an identifier outside the SPORT.TV / SPORTTV family that no line
\* carries as tvg-id, the call ends not-found, also when a line is labelled
\* 'Sport TV N' with N the identifier's trailing number.
C7_FallbackOnlyInFamily ==
    (/\ Returned
     /\ args.tvg_id = ELEVEN1
     /\ \A i \in 1..Len(OldLines) : OldLines[i] # HdrElevenHd)
        => ret.kind = "NotFound" /\ ret.target = 0

\* C7 witness: ELEVEN1 is asked for, no line carries it, a line is labelled
\* 'Sport TV 1', and the call ended not-found.
C7_Witness ==
    /\ Returned
    /\ args.tvg_id = ELEVEN1
    /\ \A i \in 1..Len(OldLines) : OldLines[i] # HdrElevenHd
    /\ \E i \in 1..Len(OldLines) : OldLines[i] = HdrLabelOnly
    /\ ret.kind = "NotFound"

\* C8: when neither the primary match nor the fallback finds a line, the call
\* fails before the validator is called and before anything is written.
C8_NotFoundBeforeValidation ==
    (/\ Returned
     /\ PrimaryIdx(OldLines, args.tvg_id, args.group_filter) = 0
     /\ FallbackIdx(OldLines, args.tvg_id) = 0)
        => /\ ret.kind = "NotFound"
           /\ ~ret.validated
           /\ probes = 0
           /\ file = before
           /\ backups = <<>>

\* C8 witness: a call on a playlist that has headers, none of them for the
\* identifier, failed with not-found.
C8_Witness ==
    /\ calls = 1
    /\ ret.kind = "NotFound"
    /\ \E i \in 1..Len(OldLines) : IsHeaderLine(OldLines[i])
    /\ PrimaryIdx(OldLines, args.tvg_id, args.group_filter) = 0
    /\ FallbackIdx(OldLines, args.tvg_id) = 0

\* the replaceable block of the located entry in the playlist as it was:
\* the lines BlockStart .. BlockEnd - 1
BlockStart == SkipBlank(OldLines, ret.target + 1)
BlockEnd == EndReplace(OldLines, ret.target)

\* the entry's own block as the playlist format defines it: the option lines
\* (lines starting with '#' that are no headers) from index i on, then at most
\* one URL line; the index after it
RECURSIVE SkipOptions(_, _)
SkipOptions(lines, i) ==
    IF i <= Len(lines) /\ StartsWithHash(lines[i]) /\ ~IsHeaderLine(lines[i])
    THEN SkipOptions(lines, i + 1) ELSE i

OwnBlockEnd(lines, i) ==
    LET u == SkipOptions(lines, i)
    IN IF u <= Len(lines) /\ IsUrlLine(lines[u]) THEN u + 1 ELSE u

\* the last n lines of a sequence
LastLines(lines, n) == SubSeq(lines, Len(lines) - n + 1, Len(lines))

\* C2: after a successful non-dry-run update every line outside the entry's
\* own option/URL block is as before, in the same order: the lines up to the
\* header and the blank lines after it, and the lines after the entry's URL
\* line, every other entry's header, options and URL among them.
C2_FrameOutsideEntry ==
    Rewrote =>
        LET e == OwnBlockEnd(OldLines, BlockStart)
            after == Len(OldLines) - e + 1
        IN /\ Len(NewLines) >= BlockStart - 1 + after
           /\ SubSeq(NewLines, 1, BlockStart - 1) = SubSeq(OldLines, 1, BlockStart - 1)
           /\ LastLines(NewLines, after) = LastLines(OldLines, after)

\* the entry's recorded option line of a kind: the last line of the block
\* that is one of the lines S, as a sequence of zero or one line
RecordedLine(S) ==
    LET hits == {i \in BlockStart..(BlockEnd - 1) : OldLines[i] \in S}
    IN IF hits = {} THEN <<>>
       ELSE <<OldLines[CHOOSE x \in hits : \A y \in hits : y <= x]>>

RefLines == {RefLine1, RefLine2}
UaLines == {UaLine1}

\* the entry's URL before the call, None when it had none
PreviousUrl ==
    IF BlockEnd > BlockStart /\ IsUrlLine(OldLines[BlockEnd - 1])
    THEN Some(OldLines[BlockEnd - 1]) ELSE None

\* the lines of the playlist after the call that start where the block started
NewBlock(n) == SubSeq(NewLines, BlockStart, BlockStart + n - 1)
BlockIs(lines) ==
    /\ BlockStart + Len(lines) - 1 <= Len(NewLines)
    /\ NewBlock(Len(lines)) = lines

C4_ValidateBeforeWrite ==
    Returned =>
        /\ (ret.validated /\ ~verdict)
              => ret.kind = "Invalid" /\ file = before /\ ret.baks = <<>>
        /\ (file # before \/ ret.baks # <<>>)
              => ret.validated /\ verdict /\ ret.kind = "Changed"
        /\ (ret.target # 0 /\ PreviousUrl # Some(args.new_url)) => ret.validated

\* C4 witness: a call with a backup directory found its entry, needed a change
\* and was refused by the validator.
C4_Witness ==
    /\ calls = 1
    /\ ret.kind = "Invalid"
    /\ args.backup_dir
    /\ ret.target # 0
    /\ ~verdict

\* C5: after a successful update the option lines follow supply-to-set,
\* omit-to-preserve: with no referrer and no user-agent supplied the block is
\* the entry's recorded referrer line and user-agent line, as they were, then
\* new_url; with only a differing referrer supplied it is the new referrer
\* line, the recorded user-agent line, then new_url; the call returns
\* (True, previous URL).  In particular header, referrer https://old, old URL
\* updated with a new URL and no referrer keeps the referrer line.
C5_OptionPreservation ==
    /\ Rewrote =>
        /\ ret.old = PreviousUrl
        /\ (IsNone(args.referrer) /\ IsNone(args.user_agent))
              => BlockIs(RecordedLine(RefLines) \o RecordedLine(UaLines) \o <<args.new_url>>)
        /\ (/\ ~IsNone(args.referrer)
            /\ <<RefPrefix \o Val(args.referrer)>> # RecordedLine(RefLines)
            /\ IsNone(args.user_agent))
              => BlockIs(<<RefPrefix \o Val(args.referrer)>> \o RecordedLine(UaLines)
                            \o <<args.new_url>>)
    /\ (/\ calls = 1
        /\ before = Rendered(<<HdrSportHD, RefLine1, Url1>>)
        /\ args.new_url = Url2 /\ IsNone(args.referrer) /\ IsNone(args.user_agent)
        /\ verdict)
          => /\ file = Rendered(<<HdrSportHD, RefLine1, Url2>>)
             /\ ret.kind = "Changed"
             /\ ret.old = Some(Url1)

\* C5 witness: an entry with a referrer line and a user-agent line was given
\* a new referrer only, and was rewritten.
C5_Witness ==
    /\ Rewrote
    /\ ~IsNone(args.referrer) /\ IsNone(args.user_agent)
    /\ RecordedLine(RefLines) # <<>>
    /\ RecordedLine(RefLines) # <<RefPrefix \o Val(args.referrer)>>
    /\ RecordedLine(UaLines) # <<>>

\* the entry of the located header after the call: the lines after the header
\* up to the next header or the end of the file
NextHeader(lines, i) ==
    LET hits == {j \in i..Len(lines) : IsHeaderLine(lines[j])}
    IN IF hits = {} THEN Len(lines) + 1 ELSE CHOOSE x \in hits : \A y \in hits : x <= y

EntryAfter == SubSeq(NewLines, ret.target + 1, NextHeader(NewLines, ret.target + 1) - 1)

\* lines is at most one referrer line, then at most one user-agent line
IsOptionPair(lines) ==
    \/ lines = <<>>
    \/ Len(lines) = 1 /\ (StartsWith(lines[1], RefPrefix) \/ StartsWith(lines[1], UaPrefix))
    \/ Len(lines) = 2 /\ StartsWith(lines[1], RefPrefix) /\ StartsWith(lines[2], UaPrefix)

\* C6: after a successful non-dry-run update the matched entry, from
\* its header up to the next header or the end of the file, holds at most one
\* referrer line, at most one user-agent line, in that order, then exactly
\* one URL line, equal to new_url.
C6_EntryOneOfEach ==
    Rewrote =>
        LET E == EntryAfter
            refs == {i \in 1..Len(E) : StartsWith(Strip(E[i]), RefPrefix)}
            uas == {i \in 1..Len(E) : StartsWith(Strip(E[i]), UaPrefix)}
            urls == {i \in 1..Len(E) : IsUrlLine(E[i])}
        IN /\ Cardinality(refs) <= 1
           /\ Cardinality(uas) <= 1
           /\ Cardinality(urls) = 1
           /\ \A i \in refs, j \in uas : i < j
           /\ \A u \in urls : E[u] = args.new_url /\ \A i \in refs \cup uas : i < u

\* What the rewrite does deliver of C6: after a successful non-dry-run update
\* the lines that stand where the replaceable block stood are at most one
\* referrer line, then at most one user-agent line, then one URL line equal
\* to new_url, whatever option lines the block had; the lines that followed
\* the block follow them.
C6_BlockOneOfEach ==
    Rewrote =>
        \E k \in 0..2 :
            /\ BlockStart + k <= Len(NewLines)
            /\ IsOptionPair(NewBlock(k))
            /\ NewLines[BlockStart + k] = args.new_url
            /\ SubSeq(NewLines, 1, BlockStart - 1) = SubSeq(OldLines, 1, BlockStart - 1)
            /\ SubSeq(NewLines, BlockStart + k + 1, Len(NewLines))
                   = SubSeq(OldLines, BlockEnd, Len(OldLines))

\* an entry whose block held two referrer lines was rewritten
C6_Witness ==
    /\ Rewrote
    /\ \E i, j \in BlockStart..(BlockEnd - 1) :
          i # j /\ OldLines[i] \in RefLines /\ OldLines[j] \in RefLines

----------------------------------------------------------------------------
(* Calls of _validate_url *)

BodySyms == {"#EXT", "M3U", "INF", "<sp*1024>", "<ff>", "x"}
Bodies == SeqsUpTo(BodySyms, MaxBody)
ContentTypes == {<<>>, <<"application/", "x-", "MPEGURL">>, <<"text/html">>}

\* the exchanges _validate_url can meet
Exchanges ==
    {Timeout} \cup
    {Exchange(FALSE, st, ct, rf, b) :
        st \in {200, 206, 404}, ct \in ContentTypes, rf \in BOOLEAN, b \in Bodies}

\* a URL that ends with .M3U8 and one that does not end with .m3u8
UrlUpper == <<"http://", "h", "/", "a", ".M3U8">>
UrlQuery == <<"http://", "h", "/", "a", ".m3u8", "?", "t", "=", "1">>

InitValidate ==
    /\ resp \in Exchanges
    /\ args \in {[NoArgs EXCEPT !.new_url = u] : u \in {UrlUpper, UrlQuery}}
    /\ file = <<>>
    /\ backups = <<>>
    /\ ret = NoRet
    /\ before = <<>>
    /\ calls = 0
    /\ probes = 0
    /\ verdict = FALSE
    /\ orch = OrchIdle

\* one call of _validate_url(args.new_url, ...) that meets the exchange resp
Validate ==
    /\ calls = 0
    /\ verdict' = ValidateUrl(args.new_url, resp)
    /\ calls' = 1
    /\ UNCHANGED <<file, backups, args, ret, before, probes, resp, orch>>

SpecValidate == InitValidate /\ [][Validate]_vars

\* C9: _validate_url returns True exactly when the status is 200 and either
\* the content type contains 'mpegurl' or the URL ends with '.m3u8', or the
\* first 2048 bytes of the body, decoded with invalid bytes dropped, contain
\* '#EXTM3U' or '#EXTINF' or start, trimmed, with '#EXT'; it returns False
\* for every other status and for a transport failure.
C9_Classification ==
    calls = 1 =>
        /\ verdict =
              (/\ ~resp.raises
               /\ resp.status = 200
               /\ \/ Contains(Lower(resp.ctype), <<"mpegurl">>)
                  \/ args.new_url = UrlUpper
                  \/ /\ ~resp.read_fails
                     /\ LET text == Decode(ReadPrefix(resp.body, 2048))
                        IN \/ Contains(text, <<"#EXT", "M3U">>)
                           \/ Contains(text, <<"#EXT", "INF">>)
                           \/ StartsWith(Strip(text), <<"#EXT">>))
        /\ resp.raises => ~verdict
        /\ (~resp.raises /\ resp.status # 200) => ~verdict
        /\ (/\ resp = Exchange(FALSE, 200, <<"text/html">>, FALSE, <<"#EXT", "M3U">>)
            /\ args.new_url = UrlQuery) => verdict
        /\ (/\ resp = Exchange(FALSE, 200, <<"application/", "x-", "MPEGURL">>, FALSE, <<>>)
            /\ args.new_url = UrlQuery) => verdict
        /\ (/\ resp = Exchange(FALSE, 200, <<>>, FALSE, <<"<sp*1024>", "<sp*1024>", "#EXT">>)
            /\ args.new_url = UrlQuery) => ~verdict

\* C9 witness: a 404 whose body starts with #EXTM3U was classified invalid.
C9_Witness ==
    /\ calls = 1
    /\ resp = Exchange(FALSE, 404, <<"text/html">>, FALSE, <<"#EXT", "M3U">>)
    /\ ~verdict

----------------------------------------------------------------------------
(* update_playlist.py: helpers of the orchestrator *)

\* CHECK_THRESHOLD_MINUTES, by default
THRESHOLD_MIN == 30
THRESHOLD == THRESHOLD_MIN * 60

\* the clock when a run starts, and the jump of one tick
StartTime == 17 * 100000000
TickLen == 15 * 60

\* value of a digit symbol, and int() of a run of digits
DigitVal(c) ==
    CASE c = "0" -> 0 [] c = "1" -> 1 [] c = "2" -> 2 [] c = "3" -> 3 [] c = "4" -> 4
      [] c = "5" -> 5 [] c = "6" -> 6 [] c = "7" -> 7 [] c = "8" -> 8 [] c = "9" -> 9

RECURSIVE ToInt(_)
ToInt(ds) ==
    IF Len(ds) = 0 THEN 0 ELSE 10 * ToInt(SubSeq(ds, 1, Len(ds) - 1)) + DigitVal(ds[Len(ds)])

\* number of digit symbols of s from index i on, at most max
RECURSIVE DigitRun(_, _, _)
DigitRun(s, i, max) ==
    IF max > 0 /\ i <= Len(s) /\ s[i] \in DigitSyms THEN 1 + DigitRun(s, i + 1, max - 1) ELSE 0

\* re.search(r"[?&]e=(\d{9,10})", url): the digits of the leftmost match,
\* None when there is no match
ExpiryParam(url) ==
    LET hits == {i \in 1..Len(url) :
                    /\ url[i] \in {"?", "&"}
                    /\ OccursAt(url, <<"e", "=">>, i + 1)
                    /\ DigitRun(url, i + 3, 10) >= 9}
    IN IF hits = {} THEN None
       ELSE LET i == CHOOSE x \in hits : \A y \in hits : x <= y
            IN Some(SubSeq(url, i + 3, i + 2 + DigitRun(url, i + 3, 10)))

\* expires of a URL validated at time now: int(e) - 30, else now + 10 minutes
ExpiresAt(url, now) ==
    IF IsNone(ExpiryParam(url)) THEN now + 60 * 10
    ELSE ToInt(Val(ExpiryParam(url))) - 30

\* key.replace('.', ' ')
ReplaceDots(key) == [i \in 1..Len(key) |-> IF key[i] = "." THEN " " ELSE key[i]]

\* list(dict.fromkeys(v)): v without the later copies of an element
RECURSIVE Dedupe(_)
Dedupe(v) ==
    IF Len(v) = 0 THEN <<>>
    ELSE LET front == Dedupe(SubSeq(v, 1, Len(v) - 1))
             x == v[Len(v)]
         IN IF \E i \in 1..Len(front) : front[i] = x THEN front ELSE Append(front, x)

\* the variants with the spaced one tried before the '.pt' one
TvgVariantsSpacedFirst(key) ==
    Dedupe(<<key>>
           \o <<ReplaceDots(key)>>
           \o (IF EndsWith(key, <<".", "pt">>) THEN <<>> ELSE <<key \o <<".", "pt">>>>))

\* tvg_variants(key)
TvgVariants(key) ==
    Dedupe(<<key>>
           \o (IF EndsWith(key, <<".", "pt">>) THEN <<>> ELSE <<key \o <<".", "pt">>>>)
           \o <<ReplaceDots(key)>>)

\* a candidate tuple (url, referer, ua, cookies, method)
Cand(url, referer, ua, cookies, method) ==
    [url |-> url, referer |-> referer, ua |-> ua, cookies |-> cookies, method |-> method]

\* the tuples capture_fn returned that are not empty, tagged "playwright"
RECURSIVE FromCapture(_)
FromCapture(cs) ==
    IF Len(cs) = 0 THEN <<>>
    ELSE IF Head(cs) = <<>> THEN FromCapture(Tail(cs))
    ELSE <<Cand(Head(cs)[1], Head(cs)[2], Head(cs)[3], Head(cs)[4], "playwright")>>
             \o FromCapture(Tail(cs))

\* find_m3u8_in_page gave a URL: direct.raised tells that it raised, else
\* direct.url is what it returned (None or a URL)
DirectFound(direct) == ~direct.raised /\ ~IsNone(direct.url) /\ Val(direct.url) # <<>>

\* a capture that does not look at what the direct fetch gave
CallsCaptureRegardless(direct, use_playwright, available) ==
    use_playwright /\ available

\* whether probe_one_source calls capture_fn
CallsCapture(direct, use_playwright, available) ==
    ~DirectFound(direct) /\ use_playwright /\ available

\* probe_one_source(src, timeout, use_playwright): captured.raised tells that
\* capture_fn raised, else captured.list is what it returned
ProbeOneSource(direct, use_playwright, available, captured) ==
    IF DirectFound(direct)
    THEN <<Cand(Val(direct.url), None, None, None, "requests")>>
    ELSE IF CallsCapture(direct, use_playwright, available)
         THEN IF captured.raised THEN <<>> ELSE FromCapture(captured.list)
         ELSE <<>>

\* the cache test without the expiry comparison
CacheFreshIgnoringExpiry(cinfo, now) ==
    /\ ~IsNone(cinfo)
    /\ Val(cinfo).url # <<>>

\* a cache entry that main() may use: present, with a URL, not yet expired
CacheFresh(cinfo, now) ==
    /\ ~IsNone(cinfo)
    /\ Val(cinfo).url # <<>>
    /\ now < Val(cinfo).expires_at

\* the expiry taken as the latest one of the cache instead of the nearest
NearestLatest(cache) ==
    LET exps == {Val(cache[k]).expires_at : k \in {x \in DOMAIN cache : ~IsNone(cache[x])}}
    IN IF exps = {} THEN None ELSE Some(CHOOSE e \in exps : \A f \in exps : e >= f)

\* the nearest expires_at of the cache, None when no entry has one
Nearest(cache) ==
    LET exps == {Val(cache[k]).expires_at : k \in {x \in DOMAIN cache : ~IsNone(cache[x])}}
    IN IF exps = {} THEN None ELSE Some(CHOOSE e \in exps : \A f \in exps : e <= f)

\* the early exit of main(): a cache that is not empty and whose nearest
\* expiry is more than the threshold ahead
ShortCircuit(cache, now) ==
    /\ \E k \in DOMAIN cache : ~IsNone(cache[k])
    /\ ~IsNone(Nearest(cache))
    /\ Val(Nearest(cache)) # 0
    /\ Val(Nearest(cache)) - now > THRESHOLD

----------------------------------------------------------------------------
(* update_playlist.py: main() *)

\* channels.json: the channel keys in order, each with its source pages
Channels ==
    <<[key |-> SPORT_TV1, sources |-> <<"pageA", "pageB">>],
      [key |-> ELEVEN1, sources |-> <<"pageC">>]>>
NChannels == Len(Channels)
ChannelIds == 1..NChannels

\* URLs the pages yield: one with no expiry parameter, one with e=1700003600
CandPlain == Url2
CandExp == <<"https://", "cdn", "/", "c", ".m3u8", "?", "e", "=",
             "1", "7", "0", "0", "0", "0", "3", "6", "0", "0">>

Directs ==
    {[raised |-> TRUE, url |-> None], [raised |-> FALSE, url |-> None],
     [raised |-> FALSE, url |-> Some(CandPlain)]}

\* tuples (url, referer, user-agent, cookies) of capture_fn
CapExp == <<CandExp, Some(Ref2), Some(Ua1), Some(<<"sid">>)>>
CapPlain == <<CandPlain, None, Some(Ua1), None>>
CapNoUrl == <<<<>>, None, None, None>>
Captures ==
    {[raised |-> TRUE, list |-> <<>>], [raised |-> FALSE, list |-> <<>>],
     [raised |-> FALSE, list |-> <<CapExp>>],
     [raised |-> FALSE, list |-> <<CapNoUrl, CapPlain, CapExp>>]}

\* last_good.json before the run: unreadable (None) or a mapping that gives
\* each channel no entry or a URL that has expired, expires within the
\* threshold, or expires beyond it
Entry(url, expires_at) == [url |-> url, expires_at |-> expires_at]
InitialEntries ==
    {None, Some(Entry(CandPlain, StartTime - 60)), Some(Entry(CandPlain, StartTime + 600)),
     Some(Entry(CandPlain, StartTime + 3600))}
EmptyCache == [c \in ChannelIds |-> None]
InitialDisks == {None} \cup {Some(c) : c \in [ChannelIds -> InitialEntries]}

\* #EXTINF:-1 tvg-id="ELEVEN1.pt" group-title="HD",Eleven 1
HdrElevenPt ==
    <<"#EXTINF:", "-1", " ", "tvg-id", "=", Quote, "ELEVEN", "1", ".", "pt", Quote, " ",
      "group-title", "=", Quote, "HD", Quote, ",", "Eleven", " ", "1">>

\* data/iptv.m3u8 before the run
OrchFiles ==
    {Rendered(<<HdrSportHD, RefLine1, Url1, HdrElevenHd, Url1>>),
     Rendered(<<HdrSportHD, CandPlain, HdrSportSD, Url1, HdrElevenPt, Url1>>)}

NoEvent == [ev |-> "none", ok |-> FALSE]

\* what the run did for the channel it is at, in order: a source page probed
\* (got are the URLs of the candidates that came back), a candidate without
\* URL skipped, a candidate validated (ok is the validator's answer)
Probed(src, cands) ==
    [ev |-> "probe", src |-> src, url |-> <<>>, ok |-> FALSE,
     got |-> [i \in 1..Len(cands) |-> cands[i].url]]
Skipped(src) == [ev |-> "skip", src |-> src, url |-> <<>>, ok |-> FALSE, got |-> <<>>]
Validated(src, url, ok) ==
    [ev |-> "validate", src |-> src, url |-> url, ok |-> ok, got |-> <<>>]

InitOrch ==
    /\ file \in OrchFiles
    /\ backups = <<>>
    /\ args = NoArgs
    /\ ret = NoRet
    /\ before = <<>>
    /\ calls = 0
    /\ probes = 0
    /\ resp = Timeout
    /\ verdict = FALSE
    /\ \E disk \in InitialDisks, files_ok, dry \in BOOLEAN,
          pw \in {<<FALSE, FALSE>>, <<TRUE, FALSE>>, <<TRUE, TRUE>>} :
          orch = [pc |-> "start", files_ok |-> files_ok, dry_run |-> dry,
                  use_playwright |-> pw[1], available |-> pw[2],
                  disk |-> disk, cache |-> EmptyCache, now |-> StartTime, ticks |-> 0,
                  ch |-> 1, src |-> 1, cands |-> <<>>, candidate |-> None,
                  from_cache |-> FALSE, vi |-> 1, changed |-> FALSE,
                  outcomes |-> <<>>, probed |-> <<>>, asked |-> <<>>, saves |-> 0,
                  last |-> NoEvent, trail |-> <<>>, tried |-> <<>>,
                  file0 |-> <<>>, entry0 |-> None]

\* args.pause, by default (seconds slept after a source that gave nothing)
PAUSE == 3

Key(ch) == Channels[ch].key
Sources(ch) == Channels[ch].sources

\* a step of the orchestrator leaves the playlist and the call record alone
OrchOnly == UNCHANGED <<file, backups, args, ret, before, calls, probes, resp, verdict>>

\* the next channel of the for loop, with outcome recorded for this one
NextChannel(o, outcome) ==
    [o EXCEPT !.pc = "channel", !.ch = o.ch + 1, !.outcomes = Append(o.outcomes, outcome),
              !.last = [ev |-> outcome, ok |-> FALSE]]

\* the startup check, load_cache() and the early exit
Start ==
    /\ orch.pc = "start"
    /\ LET loaded == IF IsNone(orch.disk) THEN EmptyCache ELSE Val(orch.disk)
       IN orch' = IF ~orch.files_ok THEN [orch EXCEPT !.pc = "aborted"]
                  ELSE IF ShortCircuit(loaded, orch.now)
                  THEN [orch EXCEPT !.pc = "exited", !.cache = loaded]
                  ELSE [orch EXCEPT !.pc = "channel", !.cache = loaded]
    /\ OrchOnly

\* "try cache first" for the channel orch.ch
CheckCache ==
    /\ orch.pc = "channel"
    /\ orch.ch <= NChannels
    /\ LET cinfo == orch.cache[orch.ch]
           fresh == CacheFresh(cinfo, orch.now)
           o == [orch EXCEPT !.probed = <<>>, !.asked = <<>>, !.cands = <<>>,
                             !.candidate = None, !.from_cache = FALSE, !.src = 1, !.vi = 1,
                             !.trail = <<>>, !.tried = <<>>, !.file0 = file,
                             !.entry0 = cinfo]
       IN \E ok \in (IF fresh THEN {ValidateUrl(Val(cinfo).url, x) : x \in ProbeExchanges}
                     ELSE {FALSE}) :
             orch' = IF fresh /\ ok
                     THEN [o EXCEPT !.pc = "update", !.from_cache = TRUE,
                                    !.candidate = Some([url |-> Val(cinfo).url,
                                                        ref |-> None, ua |-> None]),
                                    !.last = [ev |-> "check_cache", ok |-> ok, asked |-> fresh]]
                     ELSE [o EXCEPT !.pc = "probe",
                                    !.last = [ev |-> "check_cache", ok |-> ok, asked |-> fresh]]
    /\ OrchOnly

\* probe_one_source on the next source page of the channel
Probe ==
    /\ orch.pc = "probe"
    /\ orch.src <= Len(Sources(orch.ch))
    /\ \E d \in Directs, c \in Captures :
          orch' = [orch EXCEPT
                     !.pc = "cands",
                     !.cands = ProbeOneSource(d, orch.use_playwright, orch.available, c),
                     !.probed = Append(orch.probed, orch.src),
                     !.trail = Append(orch.trail,
                         Probed(orch.src, ProbeOneSource(d, orch.use_playwright,
                                                         orch.available, c))),
                     !.last = [ev |-> "probe", ok |-> FALSE, direct |-> d,
                               capture |-> CallsCapture(d, orch.use_playwright, orch.available)]]
    /\ OrchOnly

\* every source gave nothing valid: "No valid candidate", next channel
NoCandidate ==
    /\ orch.pc = "probe"
    /\ orch.src > Len(Sources(orch.ch))
    /\ orch' = NextChannel(orch, "no_candidate")
    /\ OrchOnly

\* a valid candidate that is not put in the cache
FirstValidNoCache(o, c) ==
    [o EXCEPT !.pc = "update",
              !.asked = Append(o.asked, c.url),
              !.trail = Append(o.trail, Validated(o.src, c.url, TRUE)),
              !.candidate = Some([url |-> c.url, ref |-> c.referer, ua |-> c.ua]),
              !.last = [ev |-> "validate", ok |-> TRUE]]

\* a valid candidate that does not end the loop over the candidates of its source
FirstValidNoBreak(o, c) ==
    [o EXCEPT !.cands = Tail(o.cands),
              !.asked = Append(o.asked, c.url),
              !.trail = Append(o.trail, Validated(o.src, c.url, TRUE)),
              !.candidate = Some([url |-> c.url, ref |-> c.referer, ua |-> c.ua]),
              !.cache[o.ch] = Some(Entry(c.url, ExpiresAt(c.url, o.now))),
              !.last = [ev |-> "validate", ok |-> TRUE]]

\* a valid candidate that does not end the loop over the sources
FirstValidNextSource(o, c) ==
    [o EXCEPT !.pc = "probe", !.src = o.src + 1,
              !.asked = Append(o.asked, c.url),
              !.trail = Append(o.trail, Validated(o.src, c.url, TRUE)),
              !.candidate = Some([url |-> c.url, ref |-> c.referer, ua |-> c.ua]),
              !.cache[o.ch] = Some(Entry(c.url, ExpiresAt(c.url, o.now))),
              !.last = [ev |-> "validate", ok |-> TRUE]]

\* the candidate c passed validation: it becomes the candidate of the channel,
\* the cache takes it with its expiry, and both loops are left
FirstValid(o, c) ==
    [o EXCEPT !.pc = "update",
              !.asked = Append(o.asked, c.url),
              !.trail = Append(o.trail, Validated(o.src, c.url, TRUE)),
              !.candidate = Some([url |-> c.url, ref |-> c.referer, ua |-> c.ua]),
              !.cache[o.ch] = Some(Entry(c.url, ExpiresAt(c.url, o.now))),
              !.last = [ev |-> "validate", ok |-> TRUE]]

\* the next candidate of the source: skipped when it has no URL, else validated;
\* a valid one becomes the candidate and is put in the cache
TryCandidate ==
    /\ orch.pc = "cands"
    /\ orch.cands # <<>>
    /\ LET c == Head(orch.cands)
       IN IF c.url = <<>>
          THEN orch' = [orch EXCEPT !.cands = Tail(orch.cands),
                                    !.trail = Append(orch.trail, Skipped(orch.src)),
                                    !.last = [ev |-> "skip", ok |-> FALSE]]
          ELSE \E ok \in {ValidateUrl(c.url, x) : x \in ProbeExchanges} :
                 orch' = IF ok
                         THEN FirstValid(orch, c)
                         ELSE [orch EXCEPT
                                 !.cands = Tail(orch.cands),
                                 !.asked = Append(orch.asked, c.url),
                                 !.trail = Append(orch.trail, Validated(orch.src, c.url, FALSE)),
                                 !.last = [ev |-> "validate", ok |-> FALSE]]
    /\ OrchOnly

\* the source gave no valid candidate: sleep, then the next source
NextSource ==
    /\ orch.pc = "cands"
    /\ orch.cands = <<>>
    /\ orch' = [orch EXCEPT !.pc = "probe", !.src = orch.src + 1,
                            !.now = orch.now + PAUSE,
                            !.last = [ev |-> "sleep", ok |-> FALSE]]
    /\ OrchOnly

\* update_m3u_file for the next identifier variant; any returned tuple counts
\* as success ("if ok:"), an exception moves on to the next variant
TryVariant ==
    /\ orch.pc = "update"
    /\ orch.vi <= Len(TvgVariants(Key(orch.ch)))
    /\ LET cand == Val(orch.candidate)
           a == [tvg_id |-> TvgVariants(Key(orch.ch))[orch.vi], new_url |-> cand.url,
                 dry_run |-> orch.dry_run, referrer |-> cand.ref, user_agent |-> cand.ua,
                 backup_dir |-> FALSE, group_filter |-> Some(<<"HD">>)]
       IN \E valid \in {ValidateUrl(cand.url, x) : x \in ProbeExchanges} :
          \E r \in {UpdateM3uFile(file, a, valid, FALSE)} :
             /\ args' = a
             /\ ret' = r
             /\ before' = file
             /\ file' = r.text
             /\ backups' = backups \o r.baks
             /\ probes' = probes + (IF r.validated THEN 1 ELSE 0)
             /\ calls' = calls + 1
             /\ verdict' = (IF r.validated THEN valid ELSE verdict)
             /\ orch' = IF r.kind \in {"Unchanged", "Changed"}
                        THEN [NextChannel(orch, "updated") EXCEPT
                                 !.changed = TRUE,
                                 !.tried = Append(orch.tried, [tvg_id |-> a.tvg_id, kind |-> r.kind])]
                        ELSE [orch EXCEPT !.vi = orch.vi + 1,
                                          !.tried = Append(orch.tried,
                                                           [tvg_id |-> a.tvg_id, kind |-> r.kind]),
                                          !.last = [ev |-> "variant_failed", ok |-> FALSE]]
             /\ UNCHANGED resp

\* a channel that no variant maps ends the run instead of the pass
UnmappedEndsRun ==
    /\ orch.pc = "update"
    /\ orch.vi > Len(TvgVariants(Key(orch.ch)))
    /\ orch' = [orch EXCEPT !.pc = "aborted"]
    /\ OrchOnly

\* no variant worked: "Could not map", next channel
Unmapped ==
    /\ orch.pc = "update"
    /\ orch.vi > Len(TvgVariants(Key(orch.ch)))
    /\ orch' = NextChannel(orch, "unmapped")
    /\ OrchOnly

\* after the last channel: save_cache(cache)
SaveCache ==
    /\ orch.pc = "channel"
    /\ orch.ch > NChannels
    /\ orch' = [orch EXCEPT !.pc = "done", !.disk = Some(orch.cache),
                            !.saves = orch.saves + 1,
                            !.last = [ev |-> "save", ok |-> FALSE]]
    /\ OrchOnly

\* time passes while the run is under way
Tick ==
    /\ orch.pc \in {"channel", "probe", "cands", "update"}
    /\ orch.ticks < MaxTicks
    /\ orch' = [orch EXCEPT !.now = orch.now + TickLen, !.ticks = orch.ticks + 1,
                            !.last = [ev |-> "tick", ok |-> FALSE]]
    /\ OrchOnly

NextOrch ==
    \/ Start \/ CheckCache \/ Probe \/ NoCandidate \/ TryCandidate \/ NextSource
    \/ TryVariant \/ Unmapped \/ SaveCache \/ Tick

SpecOrch == InitOrch /\ [][NextOrch]_vars

----------------------------------------------------------------------------
(* The cache in the orchestrator *)

\* the cache entry of the channel the loop is at
CachedEntry == orch.cache[orch.ch]

\* the state right after "try cache first" ran for the channel
AfterCacheCheck == orch.pc \in {"update", "probe"} /\ orch.last.ev = "check_cache"

\* the cached URL is the candidate and no source has been probed
UsesCache ==
    /\ orch.pc = "update"
    /\ orch.from_cache
    /\ orch.probed = <<>>

\* the channel is in the source-probing loop, at its first source, without a candidate
GoesToProbing ==
    /\ orch.pc = "probe"
    /\ orch.src = 1
    /\ orch.probed = <<>>
    /\ IsNone(orch.candidate)

\* C10: a channel's cached URL is the candidate without any source having been
\* probed only if the cache has an entry for the channel, the entry's
\* expires_at is later than the current time and the live re-validation of its
\* URL succeeded; a channel whose entry is missing, expired or fails the
\* re-validation goes to the source-probing loop; and a candidate that reaches
\* the playlist update without a probe is the cached one
C10_CacheUse ==
    /\ AfterCacheCheck =>
          IF /\ ~IsNone(CachedEntry)
             /\ orch.now < Val(CachedEntry).expires_at
             /\ orch.last.asked
             /\ orch.last.ok
          THEN /\ UsesCache
               /\ Val(orch.candidate).url = Val(CachedEntry).url
               /\ orch.asked = <<>>
          ELSE GoesToProbing
    /\ AfterCacheCheck /\ ~orch.last.asked => ~orch.last.ok
    /\ orch.pc = "update" => (orch.from_cache <=> orch.probed = <<>>)

\* an entry that has not expired was re-validated and is used without a probe
C10_Witness ==
    /\ AfterCacheCheck
    /\ UsesCache
    /\ orch.now < Val(CachedEntry).expires_at

\* an expired entry sent its channel to the probing loop without re-validation
C10_ExpiredWitness ==
    /\ AfterCacheCheck
    /\ ~IsNone(CachedEntry)
    /\ orch.now >= Val(CachedEntry).expires_at
    /\ GoesToProbing

\* an entry that has not expired failed the re-validation and its channel is probed
C10_RevalidationFailedWitness ==
    /\ AfterCacheCheck
    /\ ~IsNone(CachedEntry)
    /\ orch.now < Val(CachedEntry).expires_at
    /\ orch.last.asked /\ ~orch.last.ok
    /\ GoesToProbing

----------------------------------------------------------------------------
(* The early exit of the orchestrator *)

\* the expires_at values of last_good.json as the run found it (the file is
\* written again only by save_cache); empty when it is missing or unreadable
DiskExpiries ==
    IF IsNone(orch.disk) THEN {}
    ELSE {Val(Val(orch.disk)[k]).expires_at : k \in {x \in ChannelIds : ~IsNone(Val(orch.disk)[x])}}

\* the cache is not empty and every expiry, so the least one, is more than
\* the threshold ahead of the time the run started
AllFarAhead ==
    /\ DiskExpiries # {}
    /\ \A e \in DiskExpiries : e - StartTime > THRESHOLD

\* the run is about to process its first channel
AtFirstChannel == orch.pc = "channel" /\ orch.ch = 1 /\ orch.saves = 0

\* C11: before any channel is processed the least expires_at of the cache
\* decides: when the cache is not empty and it is more than the threshold
\* ahead, the run ends without a probe, a validation, a playlist write or a
\* cache write; when the cache is empty or missing, or the least expiry is
\* within the threshold or past, the run goes on to every configured channel.
C11_ShortCircuit ==
    /\ orch.pc = "exited" =>
          /\ AllFarAhead
          /\ orch.now = StartTime
          /\ orch.probed = <<>> /\ orch.asked = <<>> /\ orch.outcomes = <<>>
          /\ orch.last = NoEvent
          /\ calls = 0 /\ probes = 0
          /\ file \in OrchFiles /\ backups = <<>>
          /\ orch.saves = 0
    /\ AtFirstChannel => ~AllFarAhead /\ orch.files_ok
    /\ (orch.files_ok /\ ~AllFarAhead /\ orch.saves = 0) => orch.pc \notin {"exited", "aborted"}
    /\ orch.pc = "done" => Len(orch.outcomes) = NChannels

\* a cache with one entry an hour ahead and one channel without entry ended the run at once
C11_Witness ==
    /\ orch.pc = "exited"
    /\ \E k \in ChannelIds : IsNone(Val(orch.disk)[k])
    /\ \E k \in ChannelIds : ~IsNone(Val(orch.disk)[k])

\* a cache whose least expiry is within the threshold, another entry being
\* far ahead, let the run process every channel
C11_ProceedWitness ==
    /\ orch.pc = "done"
    /\ orch.saves = 1
    /\ Len(orch.outcomes) = NChannels

----------------------------------------------------------------------------
(* The probing loop of the orchestrator *)

\* the channel whose pass the trail records: the one the loop is at, or the
\* one just finished when the loop stands between two channels
PassEnded == orch.pc \in {"channel", "done"} /\ orch.ch > 1
PassChannel == IF PassEnded THEN orch.ch - 1 ELSE orch.ch
InPass == orch.pc \in {"probe", "cands", "update"} \/ PassEnded

\* the positions of the trail where a source page was probed, and the source
\* pages probed, in the order of the trail
ProbeAt == {i \in 1..Len(orch.trail) : orch.trail[i].ev = "probe"}
IsProbe(e) == e.ev = "probe"
ProbedSources == [i \in 1..Len(SelectSeq(orch.trail, IsProbe)) |->
                     SelectSeq(orch.trail, IsProbe)[i].src]

\* the positions of the trail where a candidate passed validation
ValidAt == {i \in 1..Len(orch.trail) : orch.trail[i].ev = "validate" /\ orch.trail[i].ok}

\* the probe that position i of the trail belongs to: the last one at or before i
ProbeOf(i) == CHOOSE p \in ProbeAt : p <= i /\ \A q \in ProbeAt : q <= i => q <= p

\* C12: for a channel without a usable cache hit the sources are probed in
\* configured order, the candidates of a source are validated in the order
\* returned (those without URL skipped), the first candidate that validates
\* ends the probing (nothing is touched after it), and the pass ends in
\* NoCandidate, with the playlist and the channel's cache entry as they were,
\* exactly when every source was exhausted without a valid candidate.
C12_ProbeOrder ==
    InPass =>
        /\ ProbedSources = [i \in 1..Len(ProbedSources) |-> i]
        /\ Len(ProbedSources) <= Len(Sources(PassChannel))
        /\ \A i \in 1..Len(orch.trail) : i \notin ProbeAt =>
              LET p == ProbeOf(i)
                  e == orch.trail[i]
                  c == orch.trail[p].got[i - p]
              IN /\ 1 \in ProbeAt
                 /\ i - p <= Len(orch.trail[p].got)
                 /\ e.src = orch.trail[p].src
                 /\ IF c = <<>> THEN e.ev = "skip" ELSE e.ev = "validate" /\ e.url = c
        /\ \A i \in ValidAt :
              /\ i = Len(orch.trail)
              /\ orch.pc = "update" \/ PassEnded
              /\ orch.candidate = Some([url |-> orch.trail[i].url,
                                        ref |-> Val(orch.candidate).ref,
                                        ua |-> Val(orch.candidate).ua])
        /\ (orch.pc = "update" /\ ~orch.from_cache) => ValidAt # {}
        /\ PassEnded =>
              (orch.outcomes[PassChannel] = "no_candidate"
                  <=> /\ ~orch.from_cache
                      /\ ValidAt = {}
                      /\ ProbedSources = [i \in 1..Len(Sources(PassChannel)) |-> i])
        /\ (PassEnded /\ orch.outcomes[PassChannel] = "no_candidate") =>
              /\ file = orch.file0
              /\ orch.cache[PassChannel] = orch.entry0
              /\ orch.tried = <<>>

\* a channel with two source pages ended in NoCandidate after candidates of
\* both pages had failed validation
C12_Witness ==
    /\ PassEnded
    /\ orch.outcomes[PassChannel] = "no_candidate"
    /\ Len(ProbedSources) = 2
    /\ \E i, j \in 1..Len(orch.trail) :
          /\ orch.trail[i].ev = "validate" /\ orch.trail[i].src = 1
          /\ orch.trail[j].ev = "validate" /\ orch.trail[j].src = 2

\* the second candidate of a source page validated after the first had failed
C12_FirstValidWitness ==
    /\ orch.pc = "update"
    /\ ValidAt # {}
    /\ \E i \in 1..Len(orch.trail) : orch.trail[i].ev = "validate" /\ ~orch.trail[i].ok
    /\ orch.cands # <<>>

\* C13: once a source page has yielded one or more candidates no later
\* source is probed for the channel in the same pass.
C13_OneSourceWithCandidates ==
    InPass => \A p, q \in ProbeAt : p < q => orch.trail[p].got = <<>>

\* C13 as the loop goes: once a source page has yielded a candidate that
\* passed validation no later source is probed for the channel in the same
\* pass; a later source is probed only after every candidate of the earlier
\* sources was skipped for want of a URL or failed validation.
C13_NoSourceAfterValid ==
    InPass =>
        \A p, q \in ProbeAt : p < q =>
            /\ \A i \in ValidAt : q < i
            /\ \A k \in 1..Len(orch.trail[p].got) :
                  /\ p + k < q
                  /\ orch.trail[p + k].src = orch.trail[p].src
                  /\ IF orch.trail[p].got[k] = <<>>
                     THEN orch.trail[p + k].ev = "skip"
                     ELSE /\ orch.trail[p + k].ev = "validate"
                          /\ orch.trail[p + k].url = orch.trail[p].got[k]
                          /\ ~orch.trail[p + k].ok

\* the second source page was probed after the candidates of the first one
\* had failed validation, and gave the candidate that validated
C13_Witness ==
    /\ orch.pc = "update"
    /\ \E p, q \in ProbeAt : p < q /\ orch.trail[p].got # <<>>
    /\ \E i \in ValidAt : orch.trail[i].src = 2

----------------------------------------------------------------------------
(* The cache entries the run writes *)

\* this step is the validation of a probed candidate, and it passed
PassesValidation ==
    /\ orch.pc = "cands"
    /\ Len(orch'.trail) = Len(orch.trail) + 1
    /\ orch'.trail[Len(orch'.trail)].ev = "validate"
    /\ orch'.trail[Len(orch'.trail)].ok

\* C14: the step in which a probed candidate passes validation sets the
\* channel's cache entry to that URL, before any playlist update is tried
\* for it; no other step of the channel loop changes a cache entry, whatever
\* the playlist update does; and save_cache writes the cache as it stands.
C14_CachedOnValidation ==
    [][/\ PassesValidation =>
             /\ ~IsNone(orch'.cache[orch.ch])
             /\ Val(orch'.cache[orch.ch]).url = Head(orch.cands).url
             /\ Val(orch'.cache[orch.ch]).url = Val(orch'.candidate).url
             /\ orch'.tried = <<>> /\ orch'.vi = 1
             /\ file' = file /\ calls' = calls
       /\ \A k \in ChannelIds :
             (orch.pc # "start" /\ orch'.cache[k] # orch.cache[k])
                 => PassesValidation /\ k = orch.ch
       /\ (orch.pc # "done" /\ orch'.pc = "done") => orch'.disk = Some(orch.cache)
      ]_vars

\* a channel whose candidate validated ended unmapped, and the saved cache
\* holds the candidate for it
C14_Witness ==
    /\ orch.pc = "done"
    /\ orch.outcomes[NChannels] = "unmapped"
    /\ ValidAt # {}
    /\ orch.tried # <<>>
    /\ ~IsNone(Val(orch.disk)[NChannels])
    /\ Val(Val(orch.disk)[NChannels]).url = orch.trail[Len(orch.trail)].url
    /\ Val(orch.disk)[NChannels] # orch.entry0

----------------------------------------------------------------------------
(* The identifier variants *)

\* the variants of three keys, written out: the key, the key with '.pt'
\* appended unless it ends in '.pt', the key with '.' replaced by ' ', without
\* duplicates
RTP_PT == <<"RTP", ".", "pt">>
VariantsOf(key) ==
    CASE key = SPORT_TV1 -> <<SPORT_TV1, <<"SPORT", ".", "TV", "1", ".", "pt">>,
                              <<"SPORT", " ", "TV", "1">>>>
      [] key = ELEVEN1 -> <<ELEVEN1, <<"ELEVEN", "1", ".", "pt">>>>
      [] key = RTP_PT -> <<RTP_PT, <<"RTP", " ", "pt">>>>

\* the mutator returned for the variant (it located the entry and the call succeeded)
Succeeded(t) == t.kind \in {"Unchanged", "Changed"}

\* C15: for a validated candidate the mutator is called with the variants in
\* the order key, key + '.pt' (unless the key ends in '.pt'), key with '.'
\* replaced by ' ', duplicates removed; the calls stop at the first variant
\* for which the mutator locates its entry and returns; when every variant
\* fails the playlist is as it was, the channel is reported unmapped and the
\* loop goes on to the next channel.
C15_VariantOrder ==
    /\ \A key \in {SPORT_TV1, ELEVEN1, RTP_PT} : TvgVariants(key) = VariantsOf(key)
    /\ InPass =>
          LET want == VariantsOf(Key(PassChannel))
          IN /\ Len(orch.tried) <= Len(want)
             /\ \A i \in 1..Len(orch.tried) :
                   /\ orch.tried[i].tvg_id = want[i]
                   /\ Succeeded(orch.tried[i]) =>
                         /\ i = Len(orch.tried)
                         /\ PassEnded
                         /\ orch.outcomes[PassChannel] = "updated"
             /\ orch.tried # <<>> => ~IsNone(orch.candidate)
             /\ (orch.pc = "update" /\ orch.tried # <<>>) => file = orch.file0
             /\ PassEnded =>
                   /\ Len(orch.outcomes) = PassChannel
                   /\ orch.outcomes[PassChannel] = "unmapped"
                         <=> /\ Len(orch.tried) = Len(want)
                             /\ \A i \in 1..Len(want) : ~Succeeded(orch.tried[i])
                   /\ orch.outcomes[PassChannel] = "unmapped" => file = orch.file0
                   /\ orch.outcomes[PassChannel] = "updated"
                         <=> (orch.tried # <<>> /\ Succeeded(orch.tried[Len(orch.tried)]))

\* the '.pt' variant of a key located the entry after the key itself had failed
C15_Witness ==
    /\ PassEnded
    /\ Len(orch.tried) = 2
    /\ ~Succeeded(orch.tried[1])
    /\ Succeeded(orch.tried[2])
    /\ orch.tried[2].tvg_id = <<"ELEVEN", "1", ".", "pt">>

\* every variant of a channel failed, the channel before it having been updated
C15_UnmappedWitness ==
    /\ PassEnded
    /\ PassChannel = NChannels
    /\ orch.outcomes = <<"updated", "unmapped">>
    /\ Len(orch.tried) = 2

----------------------------------------------------------------------------
(* The channel loop as a whole *)

\* the run passed the startup checks and was not short-circuited
RunsLoop == orch.files_ok /\ orch.pc \notin {"start", "aborted", "exited"}

\* the run has ended after the loop: one outcome per channel, one save
Completed ==
    /\ orch.pc = "done"
    /\ Len(orch.outcomes) = NChannels
    /\ orch.saves = 1
    /\ orch.disk = Some(orch.cache)

\* the channels are taken in order, one at a time: the loop is at channel
\* ch exactly when the channels before it, and only those, have their outcome
OneAtATime ==
    RunsLoop =>
        /\ orch.ch \in 1..(NChannels + 1)
        /\ Len(orch.outcomes) = orch.ch - 1
        /\ \A i \in 1..Len(orch.outcomes) :
              orch.outcomes[i] \in {"updated", "no_candidate", "unmapped"}
        /\ orch.pc \in {"probe", "cands", "update"} => orch.ch <= NChannels
        /\ orch.pc = "done" <=> orch.saves = 1
        /\ orch.saves <= 1
        /\ orch.pc = "done" => orch.ch = NChannels + 1

\* the most candidates one probe returns, sources a channel has, variants a key has
MostCands == CHOOSE n \in {Len(c.list) : c \in Captures} \cup {1} :
                \A c \in Captures : Len(c.list) <= n
MostSources == CHOOSE n \in {Len(Sources(c)) : c \in ChannelIds} :
                  \A c \in ChannelIds : Len(Sources(c)) <= n
MostVariants == CHOOSE n \in {Len(TvgVariants(Key(c))) : c \in ChannelIds} :
                   \A c \in ChannelIds : Len(TvgVariants(Key(c))) <= n

\* the most steps the variants loop, one source, and one channel can take
PerUpdate == MostVariants + 1
PerSource == MostCands + 2
PerChannel == 1 + MostSources * PerSource + 1 + PerUpdate

\* the most steps the channel under way can still take from where o stands
StepsInChannel(o) ==
    CASE o.pc = "update" -> Len(TvgVariants(Key(o.ch))) - o.vi + 2
      [] o.pc = "cands" ->
            Len(o.cands) + 1 + (Len(Sources(o.ch)) - o.src) * PerSource + 1 + PerUpdate
      [] o.pc = "probe" ->
            (Len(Sources(o.ch)) - o.src + 1) * PerSource + 1 + PerUpdate
      [] OTHER -> 0

\* the most steps the run can still take from where o stands: the loop
\* variant of main(), the clock's ticks counted in
StepsLeft(o) ==
    (MaxTicks - o.ticks) +
    CASE o.pc = "start" -> NChannels * PerChannel + 2
      [] o.pc = "channel" -> (NChannels - o.ch + 1) * PerChannel + 1
      [] o.pc \in {"probe", "cands", "update"} ->
            (NChannels - o.ch) * PerChannel + 1 + StepsInChannel(o)
      [] OTHER -> 0

\* a statement is left to run exactly when the run has not ended
Ended == orch.pc \in {"done", "exited", "aborted"}
StatementLeft ==
    \/ orch.pc = "start"
    \/ orch.pc = "channel"
    \/ orch.pc = "probe"
    \/ orch.pc = "cands"
    \/ orch.pc = "update" /\ ~IsNone(orch.candidate)

\* the channel loop, once entered, is left only through the save
EndsBySave ==
    orch.pc \in {"channel", "probe", "cands", "update"} =>
        /\ orch'.pc \in {"channel", "probe", "cands", "update", "done"}
        /\ orch'.pc = "done" =>
              /\ orch.pc = "channel" /\ orch.ch = NChannels + 1
              /\ orch'.saves = orch.saves + 1
              /\ orch'.disk = Some(orch.cache)
        /\ orch'.ch \in {orch.ch, orch.ch + 1}
        /\ orch'.ch = orch.ch + 1 =>
              /\ orch.pc \in {"probe", "update"} /\ orch'.pc = "channel"
              /\ Len(orch'.outcomes) = Len(orch.outcomes) + 1
        /\ orch'.ch = orch.ch => orch'.outcomes = orch.outcomes

\* C16: a run that passed the startup checks and was not short-circuited
\* takes every configured channel in order to an outcome, one channel ending
\* before the next begins, whatever fails for a channel (a probe that raises,
\* no candidate, a failed validation, an entry not found); it then saves the
\* cache once and ends.  Termination is stated by a variant: every step of
\* the run lowers StepsLeft, a natural number, so no run takes more than
\* StepsLeft steps; while the run has not ended a statement is left to run;
\* and the loop is left only through the single save after the last channel.
C16_EveryChannelThenSave ==
    /\ []OneAtATime
    /\ [](StepsLeft(orch) \in Nat)
    /\ [](Ended \/ StatementLeft)
    /\ [](Ended /\ RunsLoop => Completed)
    /\ [][StepsLeft(orch') < StepsLeft(orch)]_vars
    /\ [][EndsBySave]_vars

\* a run ended with a channel that had no candidate after a probe raised and
\* a channel that no variant mapped
C16_Witness ==
    /\ Completed
    /\ orch.outcomes = <<"no_candidate", "unmapped">>
    /\ orch.tried # <<>>
    /\ \E e \in {orch.tried[i] : i \in 1..Len(orch.tried)} : e.kind = "NotFound"

----------------------------------------------------------------------------
(* probe_one_source: the two strategies *)

\* the state right after probe_one_source returned for a source
AfterProbe == orch.pc = "cands" /\ orch.last.ev = "probe"

\* the direct fetch of that probe returned a URL
DirectHit ==
    /\ ~orch.last.direct.raised
    /\ orch.last.direct.url # None
    /\ Val(orch.last.direct.url) # <<>>

\* C17: probe_one_source calls the browser capture only when the caller
\* enabled it, it is available, and the direct fetch returned no URL or
\* raised; when the direct fetch finds a URL the result is exactly one
\* candidate, that URL tagged with the direct method and without referrer,
\* user-agent and cookies, and the capture is not called.
C17_CaptureOnlyAsFallback ==
    AfterProbe =>
        /\ orch.last.capture => orch.use_playwright /\ orch.available /\ ~DirectHit
        /\ DirectHit =>
              /\ ~orch.last.capture
              /\ Len(orch.cands) = 1
              /\ orch.cands[1].url = Val(orch.last.direct.url)
              /\ orch.cands[1].method = "requests"
              /\ orch.cands[1].referer = None
              /\ orch.cands[1].ua = None
              /\ orch.cands[1].cookies = None
        /\ ~orch.last.capture /\ ~DirectHit => orch.cands = <<>>
        /\ \A i \in 1..Len(orch.cands) :
              orch.cands[i].method = "playwright" => orch.last.capture

\* the direct fetch found a URL although the capture was enabled and available
C17_Witness ==
    /\ AfterProbe
    /\ DirectHit
    /\ orch.use_playwright /\ orch.available
    /\ Len(orch.cands) = 1

\* the direct fetch raised and the capture gave the candidates
C17_CaptureWitness ==
    /\ AfterProbe
    /\ orch.last.direct.raised
    /\ orch.last.capture
    /\ Len(orch.cands) = 3
    /\ \A i \in 1..3 : orch.cands[i].method = "playwright"

\* the capture was enabled but is not installed: no candidate
C17_UnavailableWitness ==
    /\ AfterProbe
    /\ ~DirectHit
    /\ orch.use_playwright /\ ~orch.available
    /\ orch.cands = <<>>

----------------------------------------------------------------------------
(* update_playlist.py: the expiry main() stores with a validated URL *)

\* the digits of 1700003600123: a time in seconds, followed by milliseconds
StampDigits == <<"1", "7", "0", "0", "0", "0", "3", "6", "0", "0", "1", "2", "3">>
MaxDigits == Len(StampDigits)

\* the values an 'e' parameter takes: empty, and 8 to 13 digits
StampValues == {SubSeq(StampDigits, 1, n) : n \in {0} \cup 8..MaxDigits}

\* validated URLs: without query, and with an 'e' parameter alone, after
\* another parameter, before another parameter, and followed by a letter
ExpiryUrls ==
    {CandPlain}
      \cup {CandPlain \o <<"?", "e", "=">> \o v : v \in StampValues}
      \cup {CandPlain \o <<"?", "t", "=", "1", "&", "e", "=">> \o v : v \in StampValues}
      \cup {CandPlain \o <<"?", "e", "=">> \o v \o <<"&", "t", "=", "1">> : v \in StampValues}
      \cup {CandPlain \o <<"?", "e", "=">> \o v \o <<"x">> : v \in StampValues}
      \cup {CandPlain \o <<"?", "t", "=", "1", "&", "e", "=", "x", "&", "e", "=">> \o v :
                v \in StampValues}

\* the clock at the validation
ValidationTimes == {StartTime + k * TickLen : k \in 0..3}

InitExpiry ==
    /\ args \in {[NoArgs EXCEPT !.new_url = u] : u \in ExpiryUrls}
    /\ orch \in {[pc |-> "validated", now |-> t, entry |-> None] : t \in ValidationTimes}
    /\ file = <<>>
    /\ backups = <<>>
    /\ ret = NoRet
    /\ before = <<>>
    /\ calls = 0
    /\ probes = 0
    /\ resp = Timeout
    /\ verdict = TRUE

\* cache[channel_key] = {"url": url, "expires_at": expires} for the URL
\* args.new_url that validated at orch.now
StoreExpiry ==
    /\ orch.pc = "validated"
    /\ orch' = [orch EXCEPT !.pc = "cached",
                            !.entry = Some(Entry(args.new_url,
                                                 ExpiresAt(args.new_url, orch.now)))]
    /\ UNCHANGED <<file, backups, args, ret, before, calls, probes, resp, verdict>>

SpecExpiry == InitExpiry /\ [][StoreExpiry]_vars

\* where the value of the query parameter that starts at i ends (exclusive)
RECURSIVE ValueEnd(_, _)
ValueEnd(url, i) ==
    IF i <= Len(url) /\ url[i] \notin {"&", "#"} THEN ValueEnd(url, i + 1) ELSE i

\* the positions of the values of the 'e' parameters of the query of url
EValues(url) ==
    {i + 3 : i \in {j \in 1..Len(url) : url[j] \in {"?", "&"}
                                          /\ OccursAt(url, <<"e", "=">>, j + 1)}}

\* the 'e' parameters whose value is a timestamp of 9 or 10 digits
IsTimestampAt(url, i) ==
    /\ ValueEnd(url, i) - i \in {9, 10}
    /\ \A k \in i..(ValueEnd(url, i) - 1) : url[k] \in DigitSyms
Timestamps(url) == {i \in EValues(url) : IsTimestampAt(url, i)}

\* the expiry the URL encodes: its first 'e' parameter that is a timestamp
EncodedExpiry(url) ==
    LET i == CHOOSE x \in Timestamps(url) : \A y \in Timestamps(url) : x <= y
    IN ToInt(SubSeq(url, i, ValueEnd(url, i) - 1))

SAFETY_MARGIN == 30
DEFAULT_WINDOW == 10 * 60

\* C18: when a probed URL validates, the expiry stored with it is the URL's
\* 'e' parameter minus the 30 seconds of margin if the URL carries an 'e'
\* query parameter that is a timestamp of 9 or 10 digits, and the time of
\* the validation plus 10 minutes otherwise; so the stored expiry is never
\* later than the expiry the URL encodes.
C18_ExpiryFromParam ==
    orch.pc = "cached" =>
        IF Timestamps(args.new_url) # {}
        THEN /\ Val(orch.entry).expires_at = EncodedExpiry(args.new_url) - SAFETY_MARGIN
             /\ Val(orch.entry).expires_at <= EncodedExpiry(args.new_url)
        ELSE Val(orch.entry).expires_at = orch.now + DEFAULT_WINDOW

\* the longest run of digits that starts at i
RECURSIVE DigitsFrom(_, _)
DigitsFrom(url, i) ==
    IF i <= Len(url) /\ url[i] \in DigitSyms THEN 1 + DigitsFrom(url, i + 1) ELSE 0

\* what the code delivers of C18: the first 'e=' that is followed by 9 digits
\* or more gives the expiry, from its first 10 digits at most, whatever
\* follows them; without such a parameter the default window is stored
C18_ExpiryFromLeadingDigits ==
    orch.pc = "cached" =>
        LET runs == {i \in EValues(args.new_url) : DigitsFrom(args.new_url, i) >= 9}
        IN IF runs = {}
           THEN Val(orch.entry).expires_at = orch.now + DEFAULT_WINDOW
           ELSE \E i \in runs :
                  /\ \A j \in runs : i <= j
                  /\ \E n \in {9, 10} :
                        /\ n = 10 <=> DigitsFrom(args.new_url, i) >= 10
                        /\ Val(orch.entry).expires_at =
                              ToInt(SubSeq(args.new_url, i, i + n - 1)) - SAFETY_MARGIN

\* an 'e' parameter of 11 digits: not a timestamp of 9 or 10 digits, and yet
\* the stored expiry is not the default window
C18_LongParamWitness ==
    /\ orch.pc = "cached"
    /\ Timestamps(args.new_url) = {}
    /\ \E i \in EValues(args.new_url) : DigitsFrom(args.new_url, i) = 11
    /\ Val(orch.entry).expires_at # orch.now + DEFAULT_WINDOW

\* an 'e' parameter of 10 digits: the stored expiry is 30 seconds before it
C18_TimestampWitness ==
    /\ orch.pc = "cached"
    /\ args.new_url = CandPlain \o <<"?", "e", "=">> \o SubSeq(StampDigits, 1, 10)
    /\ Val(orch.entry).expires_at = 1700003600 - SAFETY_MARGIN

----------------------------------------------------------------------------
(* update_m3u8_playwright.py: capture_m3u8_from_page *)

\* the requests and responses the listeners may see
MaxEvents == 2

\* what a listener hands to add_entry: the URL and the request headers
Seen(url, referer, ua) == [url |-> url, referer |-> referer, ua |-> ua]
PageUrl == <<"http://", "h", "/", "a">>
NetEvents ==
    {Seen(CandPlain, Some(Ref2), Some(Ua1)), Seen(CandPlain, None, None),
     Seen(UrlUpper, None, Some(Ua1)), Seen(PageUrl, Some(Ref2), Some(Ua1))}

\* add_entry(u, headers, cookies): found with the entry appended, unless u
\* is empty, has no '.m3u8', or is the URL of an entry already found
AddEntry(found, e, cookies) ==
    IF e.url = <<>> \/ ~Contains(Lower(e.url), <<".m3u8">>) THEN found
    ELSE IF \E i \in 1..Len(found) : found[i][1] = e.url THEN found
    ELSE Append(found, <<e.url, e.referer, e.ua, Some(cookies)>>)

\* step 5 for thedaddy pages: the three constructed URLs, with the veplay referer
VeplayRef == <<"https://", "veplay", "/">>
DirectUrl(subdomain) == <<"https://", subdomain, "/", "master", ".m3u8">>
Subdomains == <<"5nhp", "g644", "r90s">>
RECURSIVE AddDirect(_, _, _)
AddDirect(found, i, cookies) ==
    IF i > Len(Subdomains) THEN found
    ELSE AddDirect(AddEntry(found, Seen(DirectUrl(Subdomains[i]), Some(VeplayRef), Some(Ua1)),
                            cookies),
                   i + 1, cookies)

\* the statements between the launch and the try block, in order
SetupSteps == <<"new_context", "add_init_script", "new_page", "on_request", "on_response">>
StepAfter(pc) ==
    IF pc = SetupSteps[Len(SetupSteps)] THEN "navigate"
    ELSE SetupSteps[1 + CHOOSE i \in 1..Len(SetupSteps) : SetupSteps[i] = pc]
IsSetupStep(pc) == \E i \in 1..Len(SetupSteps) : SetupSteps[i] = pc

\* a call capture_m3u8_from_page(url, timeout, headless, save_debug); has_stream
\* tells whether the URL of a thedaddy page carries 'stream-'
InitCapture ==
    /\ \E thedaddy, has_stream, headless, save_debug \in BOOLEAN :
          orch = [pc |-> "call", is_thedaddy |-> thedaddy, has_stream |-> has_stream,
                  headless |-> headless, save_debug |-> save_debug,
                  driver |-> "off", browser |-> "none", found |-> <<>>, events |-> 0,
                  failed |-> "none", close_calls |-> 0]
    /\ file = <<>>
    /\ backups = <<>>
    /\ args = NoArgs
    /\ ret = NoRet
    /\ before = <<>>
    /\ calls = 0
    /\ probes = 0
    /\ resp = Timeout
    /\ verdict = FALSE

CaptureOnly == UNCHANGED <<file, backups, args, ret, before, calls, probes, resp, verdict>>

\* headless forced off for thedaddy pages; "with sync_playwright() as p"
EnterPlaywright ==
    /\ orch.pc = "call"
    /\ orch' = [orch EXCEPT !.pc = "launch",
                            !.headless = IF orch.is_thedaddy THEN FALSE ELSE orch.headless,
                            !.driver = "running"]
    /\ CaptureOnly

\* browser = browser_type.launch(...): the browser is there, or launch raises
Launch ==
    /\ orch.pc = "launch"
    /\ \/ orch' = [orch EXCEPT !.pc = SetupSteps[1], !.browser = "open"]
       \/ orch' = [orch EXCEPT !.pc = "exit_with", !.failed = "launch"]
    /\ CaptureOnly

\* one of the statements before the try block: it passes, or it raises and
\* the exception leaves the with block
Setup ==
    /\ IsSetupStep(orch.pc)
    /\ \/ orch' = [orch EXCEPT !.pc = StepAfter(orch.pc)]
       \/ orch' = [orch EXCEPT !.pc = "exit_with", !.failed = orch.pc]
    /\ CaptureOnly

\* a request or response reaches the listeners while the page is driven
Observe ==
    /\ orch.pc = "navigate"
    /\ orch.events < MaxEvents
    /\ \E e \in NetEvents, cookies \in {<<>>, <<"sid">>} :
          orch' = [orch EXCEPT !.found = AddEntry(orch.found, e, cookies),
                               !.events = orch.events + 1]
    /\ CaptureOnly

\* the body of the try block ran through: for a thedaddy page with a stream
\* id and nothing found, the constructed URLs are added
Navigated ==
    /\ orch.pc = "navigate"
    /\ \E cookies \in {<<>>, <<"sid">>} :
          orch' = [orch EXCEPT
                     !.pc = "debug",
                     !.found = IF orch.is_thedaddy /\ orch.has_stream /\ orch.found = <<>>
                               THEN AddDirect(orch.found, 1, cookies)
                               ELSE orch.found]
    /\ CaptureOnly

\* page.goto or a wait raised: "except Exception" logs it
NavigationRaises ==
    /\ orch.pc = "navigate"
    /\ orch' = [orch EXCEPT !.pc = "finally", !.failed = "navigate"]
    /\ CaptureOnly

\* the debug files (their own errors are logged), then the end of the try block
SaveDebug ==
    /\ orch.pc = "debug"
    /\ orch' = [orch EXCEPT !.pc = "finally"]
    /\ CaptureOnly

\* finally: browser.close()
Finally ==
    /\ orch.pc = "finally"
    /\ orch' = [orch EXCEPT !.pc = "exit_with", !.browser = "closed",
                            !.close_calls = orch.close_calls + 1]
    /\ CaptureOnly

\* the end of the with block stops the driver; then "return found", or the
\* exception of a statement outside the try block reaches the caller
ExitWith ==
    /\ orch.pc = "exit_with"
    /\ orch' = [orch EXCEPT !.pc = IF orch.failed \in {"none", "navigate"}
                                   THEN "returned" ELSE "raised",
                            !.driver = "stopped"]
    /\ CaptureOnly

NextCapture ==
    \/ EnterPlaywright \/ Launch \/ Setup \/ Observe \/ Navigated
    \/ NavigationRaises \/ SaveDebug \/ Finally \/ ExitWith

SpecCapture == InitCapture /\ [][NextCapture]_vars

\* control is back at the caller
BackAtCaller == orch.pc \in {"returned", "raised"}

\* C19: capture_m3u8_from_page closes the browser it launched on every exit
\* path after the launch, an exception at any step between the launch and
\* the return included (context creation, init-script installation, page
\* creation, listener registration, navigation), before control is back at
\* the caller.
C19_BrowserClosedOnExit ==
    BackAtCaller /\ orch.failed # "launch" => orch.browser = "closed"

\* what the code delivers of C19: once the try block is entered the browser
\* is closed, by one call of close, whether the navigation raised or not; and
\* the driver is stopped on every exit
C19_ClosedOnceTryEntered ==
    BackAtCaller =>
        /\ orch.driver = "stopped"
        /\ orch.failed \in {"none", "navigate"} =>
              orch.browser = "closed" /\ orch.close_calls = 1 /\ orch.pc = "returned"
        /\ orch.failed = "launch" => orch.browser = "none"

\* the page could not be created: the exception reaches the caller and
\* browser.close() was not called
C19_SetupRaisedWitness ==
    /\ orch.pc = "raised"
    /\ orch.failed = "new_page"
    /\ orch.browser = "open"
    /\ orch.close_calls = 0

\* the navigation raised: the entries found so far are returned, the browser closed
C19_NavigationRaisedWitness ==
    /\ orch.pc = "returned"
    /\ orch.failed = "navigate"
    /\ orch.browser = "closed"
    /\ Len(orch.found) = 2

----------------------------------------------------------------------------
(* update_m3u_file: the extent of the replaceable block *)

\* the call located an entry (whatever it then did with it)
Located == Returned /\ ret.target # 0

\* the located entry has no URL line: the first non-blank line after its
\* header is the header of the next entry
NextHeaderFollows ==
    /\ Located
    /\ BlockStart <= Len(OldLines)
    /\ IsHeaderLine(OldLines[BlockStart])

\* the lines of the entry that follows: its header, options and URL
FollowingEntry == SubSeq(OldLines, BlockStart, OwnBlockEnd(OldLines, BlockStart + 1) - 1)

\* lines occur in the playlist after the header of the located entry, in a row
StillPresent(lines) ==
    \E j \in (ret.target + 1)..(Len(NewLines) - Len(lines) + 1) :
        SubSeq(NewLines, j, j + Len(lines) - 1) = lines

\* C20: the replaceable block computed for a matched header holds only the
\* entry's own option lines in a row and at most its own URL line; when the
\* matched entry has no URL line and the header of another entry follows it
\* directly, the block does not reach over that header or that entry's URL,
\* and after the update the following entry's header and URL are still there.
C20_BlockWithinEntry ==
    Located =>
        /\ \A i \in BlockStart..(BlockEnd - 1) : ~IsHeaderLine(OldLines[i])
        /\ BlockEnd = OwnBlockEnd(OldLines, BlockStart)
        /\ NextHeaderFollows => BlockEnd = BlockStart
        /\ NextHeaderFollows /\ Rewrote => StillPresent(FollowingEntry)

\* what the code delivers of C20: when the scan over the lines that start
\* with '#' meets no header, the block is the entry's own options and URL
C20_BlockOfEntryWithUrl ==
    Located /\ (\A i \in BlockStart..(BlockEnd - 1) : ~IsHeaderLine(OldLines[i]))
        => BlockEnd = OwnBlockEnd(OldLines, BlockStart)

\* an update of an entry without URL took the following entry away
C20_SwallowedWitness ==
    /\ NextHeaderFollows
    /\ Rewrote
    /\ BlockEnd = OwnBlockEnd(OldLines, BlockStart + 1)
    /\ BlockEnd > BlockStart + 1
    /\ ~StillPresent(FollowingEntry)

----------------------------------------------------------------------------
(* update_playlist.py: what main() reports for a channel *)

\* the step is a call of update_m3u_file made by the variants loop
MutatorCalled == orch.pc = "update" /\ calls' = calls + 1

\* the step ends the channel as updated
ReportsUpdated ==
    /\ Len(orch'.outcomes) = Len(orch.outcomes) + 1
    /\ orch'.outcomes[Len(orch'.outcomes)] = "updated"

\* the step sets the flag behind "changes made"
SetsChanged == orch'.changed /\ ~orch.changed

\* C21: main() reports a channel as updated, and sets the flag behind
\* "changes made", only when update_m3u_file returned changed=True for the
\* channel; a channel whose entry already holds the candidate URL (the call
\* returns changed=False) is not reported as updated and does not set the
\* flag, so a run that rewrote no entry of the playlist reports no changes.
C21_ReportsOnlyChanges ==
    [][/\ ReportsUpdated => ret'.kind = "Changed"
       /\ SetsChanged => ret'.kind = "Changed"
       /\ MutatorCalled /\ ret'.kind = "Unchanged" =>
             ~ReportsUpdated /\ orch'.changed = orch.changed
       /\ SetsChanged /\ ~orch.dry_run => file' # file]_vars

\* what the code delivers of C21: the channel is reported as updated and
\* the flag is set exactly when update_m3u_file returned, whatever its first
\* component; a call that raised does neither
C21_ReportsEveryReturn ==
    [][/\ ReportsUpdated <=> MutatorCalled /\ ret'.kind \in {"Unchanged", "Changed"}
       /\ ReportsUpdated => orch'.changed
       /\ MutatorCalled /\ ret'.kind \in {"NotFound", "Invalid"} =>
             orch'.changed = orch.changed
       /\ ~MutatorCalled => orch'.changed = orch.changed]_vars

\* a run ended with "changes made: True" although its only update call
\* returned changed=False and the playlist is what it was
C21_UnchangedReportedWitness ==
    /\ orch.pc = "done"
    /\ orch.changed
    /\ calls = 1
    /\ ret.kind = "Unchanged"
    /\ file = before
    /\ \E i \in 1..Len(orch.outcomes) : orch.outcomes[i] = "updated"

====
